---------------------------- MODULE Spec2Model ----------------------------
(***************************************************************************)
(* A model of the world-simulation engine of travillian-games (the Rust    *)
(* backend under src/backend/src): villages, troop rows, armies, buildings *)
(* and the handlers and repository statements that change them.            *)
(*                                                                         *)
(* The store is the only shared state.  Every repository function is one   *)
(* SQL statement run on the pool (no handler opens a transaction), so a    *)
(* handler is modelled as a read of the store followed by the sequence of  *)
(* write statements it issues.  Specification Spec runs every handler      *)
(* start to finish in one step; specification SpecSteps runs the same      *)
(* handlers one statement per step, so that requests and the movement      *)
(* sweep interleave and a failed statement leaves the earlier ones in      *)
(* place.                                                                  *)
(***************************************************************************)
EXTENDS Integers, Sequences, FiniteSets, TLC

VARIABLES
    now,            \* wall clock (Utc::now / SQL NOW()), in seconds
    villages,       \* table villages
    troops,         \* table troops, one row per (village, troop type)
    armies,         \* table armies
    buildings,      \* table buildings, one row per (village, slot)
    reports,        \* tables battle_reports and scout_reports (append-only)
    troop_queue,    \* table troop_queue, the training orders not yet completed
    next_army,      \* number of army rows inserted so far (fresh ids)
    result,         \* SpecDeduct: outcome of the last deduct_resources call
    trained,        \* number of training completions so far
    builds,         \* number of accepted build, upgrade and demolish requests
    tasks,          \* SpecSteps: the running handlers, one record per task
    faults          \* SpecSteps: statements that failed in the store so far

vars == << now, villages, troops, armies, buildings, reports, troop_queue,
           next_army, result, trained, builds, tasks, faults >>

----------------------------------------------------------------------------
(* Bounds of the model *)

MaxArmies == 2
MaxTrained == 1
MaxBuilds == 2
MaxFaults == 1

----------------------------------------------------------------------------
(* Small helpers *)

Min(a, b) == IF a <= b THEN a ELSE b

Max(a, b) == IF a >= b THEN a ELSE b

\* `let x = ...;` of the source: F with its argument bound to the value x
Bind(x, F(_)) == F(x)

RECURSIVE Gcd(_, _)
Gcd(a, b) == IF b = 0 THEN a ELSE Gcd(b, a % b)

RECURSIVE SumOver(_, _)
SumOver(f, S) ==
    IF S = {} THEN 0
    ELSE LET x == CHOOSE y \in S : TRUE
         IN  f[x] + SumOver(f, S \ {x})

\* sum of the values of a map (HashMap::values().sum())
MapSum(m) == SumOver(m, DOMAIN m)

\* m.get(k).copied().unwrap_or(0)
GetOr0(m, k) == IF k \in DOMAIN m THEN m[k] ELSE 0

\* the map m restricted to the keys whose value satisfies > 0
Positive(m) == [k \in {j \in DOMAIN m : m[j] > 0} |-> m[k]]

EmptyMap == [k \in {} |-> 0]

\* Option<T>: None, and Some(x)
None == << >>

Some(x) == << x >>

\* floor(a / b) for b > 0 and any integer a (f64::floor)
FloorDiv(a, b) == a \div b

\* ceil(a / b) for b > 0 and any integer a (f64::ceil)
CeilDiv(a, b) == -((-a) \div b)

\* truncation toward zero of a / b for b > 0 (the cast "as i32")
TruncDiv(a, b) == IF a >= 0 THEN a \div b ELSE -((-a) \div b)

RECURSIVE ISqrtIn(_, _, _)
ISqrtIn(n, lo, hi) ==
    IF lo >= hi THEN lo
    ELSE LET mid == (lo + hi + 1) \div 2
         IN  IF mid * mid <= n THEN ISqrtIn(n, mid, hi)
             ELSE ISqrtIn(n, lo, mid - 1)

\* floor(sqrt(n)) for n >= 0
ISqrt(n) == ISqrtIn(n, 0, Min(n, 46340))

\* Decimal numbers too wide for a machine integer are sequences of decimal
\* digits, lowest digit first.

\* the digits of n >= 0
RECURSIVE Digits(_)
Digits(n) == IF n < 10 THEN << n >> ELSE << n % 10 >> \o Digits(n \div 10)

\* the digits of ds * m + carry, for a small m
RECURSIVE BigMul(_, _, _)
BigMul(ds, m, carry) ==
    IF ds = << >>
    THEN IF carry = 0 THEN << >> ELSE << carry % 10 >> \o BigMul(<< >>, m, carry \div 10)
    ELSE LET v == Head(ds) * m + carry
         IN  << v % 10 >> \o BigMul(Tail(ds), m, v \div 10)

\* the digits of ds * m^n
RECURSIVE BigPow(_, _, _)
BigPow(ds, m, n) == IF n = 0 THEN ds ELSE BigPow(BigMul(ds, m, 0), m, n - 1)

\* the number a digit sequence stands for
RECURSIVE BigVal(_)
BigVal(ds) == IF ds = << >> THEN 0 ELSE Head(ds) + 10 * BigVal(Tail(ds))

\* trunc(ds / 10^k): what `as i32` keeps of a non-negative f64
BigTrunc(ds, k) == IF Len(ds) <= k THEN 0 ELSE BigVal(SubSeq(ds, k + 1, Len(ds)))

\* round(ds / 10^k), halves away from zero (f64::round)
BigRound(ds, k) ==
    BigTrunc(ds, k) + (IF k >= 1 /\ Len(ds) >= k /\ ds[k] >= 5 THEN 1 ELSE 0)

----------------------------------------------------------------------------
(* Catalog: troop types and their definitions (table troop_definitions) *)

TroopTypes == {"Infantry", "Spearman", "HighlandPony", "RoyalAdvisor"}

\* TroopType::is_cavalry
is_cavalry(t) ==
    t \in {"WarElephant", "BuffaloWagon", "HighlandPony", "WarPrahu", "MerchantShip"}

\* TroopType::is_chief
is_chief(t) == t \in {"RoyalAdvisor", "HarborMaster", "ElderChief"}

\* The rows of troop_definitions the model uses.  Infantry's attack, speed and
\* carry capacity, Spearman's defences and the chief's loyalty reduction are the
\* figures of the specification's scenarios S3 and S6; HighlandPony is the scout
\* of scenario S4 (speed 16; a scouting mission reads nothing but the speed).
definitions ==
    [ Infantry     |-> [attack |-> 10, defense_infantry |-> 15, defense_cavalry |-> 10,
                        speed |-> 6, carry_capacity |-> 50, loyalty_reduction |-> 0],
      Spearman     |-> [attack |-> 5, defense_infantry |-> 20, defense_cavalry |-> 25,
                        speed |-> 6, carry_capacity |-> 20, loyalty_reduction |-> 0],
      HighlandPony |-> [attack |-> 0, defense_infantry |-> 5, defense_cavalry |-> 5,
                        speed |-> 16, carry_capacity |-> 0, loyalty_reduction |-> 0],
      RoyalAdvisor |-> [attack |-> 20, defense_infantry |-> 10, defense_cavalry |-> 10,
                        speed |-> 4, carry_capacity |-> 0, loyalty_reduction |-> 25] ]

\* MissionType
Missions == {"Raid", "Attack", "Conquer", "Support", "Scout", "Settle"}

\* is_hostile without Scout
is_hostile_without_scout(m) == m \in {"Raid", "Attack", "Conquer"}

\* MissionType::is_hostile
is_hostile(m) == m \in {"Raid", "Attack", "Conquer", "Scout"}

\* MissionType::returns
returns(m) == m # "Settle"

\* CarriedResources
Res(w, c, i, cr) == [wood |-> w, clay |-> c, iron |-> i, crop |-> cr]

\* CarriedResources::default
NoResources == Res(0, 0, 0, 0)

\* CarriedResources::total
total(r) == r.wood + r.clay + r.iron + r.crop

----------------------------------------------------------------------------
(* Travel time *)

\* calculate_distance, squared (the square root is taken in calculate_travel_time)
calculate_distance2(from_x, from_y, to_x, to_y) ==
    (to_x - from_x) * (to_x - from_x) + (to_y - from_y) * (to_y - from_y)

\* the speed of the slowest troop type sent with a positive count, 6 if none
slowest_speed(trps) ==
    LET S == {definitions[t].speed : t \in {k \in DOMAIN trps : trps[k] > 0}}
    IN  IF S = {} THEN 6 ELSE CHOOSE s \in S : \A u \in S : s <= u

\* calculate_travel_time: max(60, trunc(sqrt(d2) / speed * 3600)) seconds
calculate_travel_time(d2, trps) ==
    LET v == slowest_speed(trps)
    IN  Max(60, ISqrt((12960000 * d2) \div (v * v)))

----------------------------------------------------------------------------
(* Combat formula.  Powers and ratios are kept as exact fractions; the code  *)
(* computes them in f64.                                                     *)

\* calculate_attack_power
calculate_attack_power(trps) ==
    SumOver([t \in DOMAIN trps |-> definitions[t].attack * trps[t]], DOMAIN trps)

\* calculate_attack_by_type: <<infantry, cavalry>>
calculate_attack_by_type(trps) ==
    LET part(S) == SumOver([t \in S |-> definitions[t].attack * trps[t]], S)
    IN  << part({t \in DOMAIN trps : ~is_cavalry(t)}),
           part({t \in DOMAIN trps : is_cavalry(t)}) >>

\* calculate_defense_power as the fraction n / d (d > 0), for the infantry
\* ratio inf / (inf + cav), or 1/2 when the total attack is not positive
calculate_defense_power(trps, inf, cav) ==
    LET tot == inf + cav
        wi  == IF tot > 0 THEN inf ELSE 1
        wc  == IF tot > 0 THEN cav ELSE 1
        den == IF tot > 0 THEN tot ELSE 2
    IN  [n |-> SumOver([t \in DOMAIN trps |->
                    (definitions[t].defense_infantry * wi
                     + definitions[t].defense_cavalry * wc) * trps[t]], DOMAIN trps),
         d |-> den]

\* A loss ratio: [kind |-> "pow15", p, q] is (p/q)^1.5, [kind |-> "frac", p, q] is p/q.
Pow15(p, q) ==
    LET g == Gcd(IF p < 0 THEN -p ELSE p, IF q < 0 THEN -q ELSE q)
    IN  [kind |-> "pow15", p |-> p \div Max(g, 1), q |-> q \div Max(g, 1)]

Frac(p, q) == [kind |-> "frac", p |-> p, q |-> q]

\* floor(count * ratio) as i32, for count > 0.  (p/q)^1.5 of a negative ratio is
\* NaN, which the cast turns into 0.
floor_times(count, ratio) ==
    IF ratio.kind = "frac" THEN FloorDiv(count * ratio.p, ratio.q)
    ELSE IF ratio.p <= 0 THEN 0
    ELSE LET p3 == ratio.p * ratio.p * ratio.p
             q3 == ratio.q * ratio.q * ratio.q
             S  == {l \in 0..count : l * l * q3 <= count * count * p3}
         IN  CHOOSE l \in S : \A k \in S : k <= l

\* apply_losses with every loss rounded up instead of down
apply_losses_rounded_up(trps, loss_ratio) ==
    LET loss(t) == IF trps[t] <= 0 THEN 0
                   ELSE Min(floor_times(trps[t], loss_ratio) + 1, trps[t])
    IN  [t \in {k \in DOMAIN trps : loss(k) > 0} |-> loss(t)]

\* apply_losses with every loss rounded to the nearest unit instead of down
apply_losses_rounded(trps, loss_ratio) ==
    LET loss(t) == IF trps[t] <= 0 THEN 0
                   ELSE Min((floor_times(2 * trps[t], loss_ratio) + 1) \div 2, trps[t])
    IN  [t \in {k \in DOMAIN trps : loss(k) > 0} |-> loss(t)]

\* apply_losses: per type floor(count * loss_ratio), at most count, dropped if <= 0
apply_losses(trps, loss_ratio) ==
    LET loss(t) == IF trps[t] <= 0 THEN 0
                   ELSE Min(floor_times(trps[t], loss_ratio), trps[t])
    IN  [t \in {k \in DOMAIN trps : loss(k) > 0} |-> loss(t)]

\* calculate_survivors
calculate_survivors(trps, losses) ==
    LET left(t) == Max(trps[t] - GetOr0(losses, t), 0)
    IN  [t \in {k \in DOMAIN trps : left(k) > 0} |-> left(t)]

\* loss_ratios with equal powers decided for the attacker
loss_ratios_tie_to_attacker(p, q, mission) ==
    IF p >= q /\ q > 0 THEN << TRUE, Pow15(q, p), Frac(1, 1) >>
    ELSE IF q > 0
    THEN << FALSE, IF mission = "Raid" THEN Frac(66, 100) ELSE Frac(1, 1), Pow15(p, q) >>
    ELSE << TRUE, Frac(0, 1), Frac(0, 1) >>

\* the (attacker_wins, attacker_loss_ratio, defender_loss_ratio) of calculate_battle,
\* for attack_power / defense_power = p / q with q >= 0 the sign of the defense
loss_ratios(p, q, mission) ==
    IF p > q /\ q > 0 THEN << TRUE, Pow15(q, p), Frac(1, 1) >>
    ELSE IF q > 0
    THEN << FALSE,
            \* Raid: max(0.66, 1 - ratio * 0.5)
            IF mission = "Raid"
            THEN (IF 66 * 2 * q >= 100 * (2 * q - p) THEN Frac(66, 100)
                  ELSE Frac(2 * q - p, 2 * q))
            ELSE Frac(1, 1),
            Pow15(p, q) >>
    ELSE << TRUE, Frac(0, 1), Frac(0, 1) >>

\* calculate_battle: BattleResult
calculate_battle(attacker_troops, defender_troops, mission) ==
    Bind(calculate_attack_by_type(attacker_troops), LAMBDA ic :
    Bind(calculate_defense_power(defender_troops, ic[1], ic[2]), LAMBDA dp :
    Bind(loss_ratios(calculate_attack_power(attacker_troops) * dp.d, dp.n, mission),
         LAMBDA out :
    Bind(apply_losses(attacker_troops, out[2]), LAMBDA attacker_losses :
    Bind(apply_losses(defender_troops, out[3]), LAMBDA defender_losses :
        [attacker_wins      |-> out[1],
         attacker_survivors |-> calculate_survivors(attacker_troops, attacker_losses),
         defender_survivors |-> calculate_survivors(defender_troops, defender_losses),
         attacker_losses    |-> attacker_losses,
         defender_losses    |-> defender_losses])))))

\* calculate_stolen_resources without the scaling to the carry capacity
calculate_stolen_resources_unscaled(target, survivors, mission) ==
    LET avail(x) == IF mission = "Raid" THEN TruncDiv(x, 2)
                    ELSE IF mission \in {"Attack", "Conquer"} THEN x
                    ELSE 0
    IN  Res(avail(target.wood), avail(target.clay), avail(target.iron),
            avail(target.crop))

\* calculate_stolen_resources
calculate_stolen_resources(target, survivors, mission) ==
    LET total_capacity ==
            SumOver([t \in DOMAIN survivors |->
                        definitions[t].carry_capacity * survivors[t]], DOMAIN survivors)
        avail(x) == IF mission = "Raid" THEN TruncDiv(x, 2)
                    ELSE IF mission \in {"Attack", "Conquer"} THEN x
                    ELSE 0
        aw == avail(target.wood)
        ac == avail(target.clay)
        ai == avail(target.iron)
        acr == avail(target.crop)
        total_available == aw + ac + ai + acr
        take(x) == IF total_available <= total_capacity THEN x
                   ELSE TruncDiv(x * total_capacity, total_available)
    IN  IF total_capacity <= 0 \/ total_available <= 0 THEN NoResources
        ELSE Res(take(aw), take(ac), take(ai), take(acr))

----------------------------------------------------------------------------
(* The world: players, villages and the map *)

Players == {"p1", "p2"}

Villages == {"v1", "v2"}

\* villages.(x, y): fixed at creation, unique
VillageXY == [v1 |-> <<0, 0>>, v2 |-> <<6, 0>>]

\* the tiles an army may be sent to: the two villages and one empty tile
Tiles == {<<0, 0>>, <<6, 0>>, <<0, 6>>}

\* the canonical order in which a troop map is walked
TypeOrder == <<"Infantry", "Spearman", "HighlandPony", "RoyalAdvisor">>

\* the keys of S in the order of TypeOrder
InOrder(S) == SelectSeq(TypeOrder, LAMBDA t : t \in S)

\* the elements of a finite set of integers in increasing order
RECURSIVE Ascending(_)
Ascending(S) ==
    IF S = {} THEN << >>
    ELSE LET m == CHOOSE x \in S : \A y \in S : x <= y
         IN  << m >> \o Ascending(S \ {m})

\* the store as one value: what a statement reads and writes
Store == [villages |-> villages, troops |-> troops, armies |-> armies,
          buildings |-> buildings, reports |-> reports,
          troop_queue |-> troop_queue, next_army |-> next_army]

\* the outcome of a statement: ok = FALSE is an sqlx::Error (the `?` returns it)
StmtOk(db) == [ok |-> TRUE, db |-> db]

StmtErr(db) == [ok |-> FALSE, db |-> db]

----------------------------------------------------------------------------
(* VillageRepository *)

\* VillageRepository::find_by_coordinates: the set holding the village at (x, y)
find_by_coordinates(x, y) == {v \in Villages : VillageXY[v] = <<x, y>>}

\* update_resources without `resources_updated_at = NOW()` in its SET clause
update_resources_keeps_timestamp(db, id, wood, clay, iron, crop, t) ==
    StmtOk([db EXCEPT !.villages[id].wood = wood, !.villages[id].clay = clay,
                      !.villages[id].iron = iron, !.villages[id].crop = crop])

\* VillageRepository::update_resources (fetch_one); t is NOW()
update_resources(db, id, wood, clay, iron, crop, t) ==
    StmtOk([db EXCEPT !.villages[id].wood = wood, !.villages[id].clay = clay,
                      !.villages[id].iron = iron, !.villages[id].crop = crop,
                      !.villages[id].resources_updated_at = t])

\* VillageRepository::deduct_resources: one conditional UPDATE read with
\* fetch_one, so a row that fails the WHERE clause is sqlx::Error::RowNotFound
deduct_resources(db, id, wood, clay, iron, crop) ==
    LET v == db.villages[id]
    IN  IF v.wood >= wood /\ v.clay >= clay /\ v.iron >= iron /\ v.crop >= crop
        THEN StmtOk([db EXCEPT !.villages[id] =
                        [v EXCEPT !.wood = v.wood - wood, !.clay = v.clay - clay,
                                  !.iron = v.iron - iron, !.crop = v.crop - crop]])
        ELSE StmtErr(db)

\* VillageRepository::add_resources
add_resources(db, id, wood, clay, iron, crop) ==
    LET v == db.villages[id]
    IN  StmtOk([db EXCEPT !.villages[id] =
                   [v EXCEPT !.wood = Min(v.wood + wood, v.warehouse_capacity),
                             !.clay = Min(v.clay + clay, v.warehouse_capacity),
                             !.iron = Min(v.iron + iron, v.warehouse_capacity),
                             !.crop = Min(v.crop + crop, v.granary_capacity)]])

\* VillageRepository::update_storage_capacity
update_storage_capacity(db, id, warehouse_capacity, granary_capacity) ==
    StmtOk([db EXCEPT !.villages[id].warehouse_capacity = warehouse_capacity,
                      !.villages[id].granary_capacity = granary_capacity])

\* VillageRepository::update_loyalty
update_loyalty(db, id, loyalty) ==
    StmtOk([db EXCEPT !.villages[id].loyalty = loyalty])

\* VillageRepository::transfer_ownership
transfer_ownership(db, id, new_owner_id) ==
    StmtOk([db EXCEPT !.villages[id].user_id = new_owner_id,
                      !.villages[id].is_capital = FALSE])

----------------------------------------------------------------------------
(* TroopRepository *)

\* TroopRepository::find_by_village: the rows with count > 0
find_by_village(db, village_id) ==
    LET rows == db.troops[village_id]
    IN  [t \in {k \in DOMAIN rows : rows[k].count > 0} |-> rows[t]]

\* TroopRepository::add_troops (upsert)
add_troops(db, village_id, troop_type, count) ==
    LET rows == db.troops[village_id]
        row  == IF troop_type \in DOMAIN rows
                THEN [count |-> rows[troop_type].count + count,
                      in_village |-> rows[troop_type].in_village + count]
                ELSE [count |-> count, in_village |-> count]
    IN  StmtOk([db EXCEPT !.troops[village_id] =
                   [t \in DOMAIN rows \cup {troop_type} |->
                       IF t = troop_type THEN row ELSE rows[t]]])

\* TroopRepository::remove_troops_from_village (fetch_one: the row must exist)
remove_troops_from_village(db, village_id, troop_type, count) ==
    IF troop_type \notin DOMAIN db.troops[village_id] THEN StmtErr(db)
    ELSE StmtOk([db EXCEPT !.troops[village_id][troop_type].in_village = @ - count])

\* TroopRepository::return_troops_to_village (fetch_one: the row must exist)
return_troops_to_village(db, village_id, troop_type, count) ==
    IF troop_type \notin DOMAIN db.troops[village_id] THEN StmtErr(db)
    ELSE StmtOk([db EXCEPT !.troops[village_id][troop_type].in_village = @ + count])

\* TroopRepository::kill_troops (execute: no row is no error)
kill_troops(db, village_id, troop_type, count) ==
    IF troop_type \notin DOMAIN db.troops[village_id] THEN StmtOk(db)
    ELSE StmtOk([db EXCEPT !.troops[village_id][troop_type] =
                    [count |-> @.count - count,
                     in_village |-> Max(0, @.in_village - count)]])

----------------------------------------------------------------------------
(* ArmyRepository.  An army row: player_id, from_village_id, to (the tile   *)
(* to_x, to_y), to_village_id ("none" for NULL), mission, troops, resources, *)
(* arrives_at, is_returning, is_stationed, battle_report_id (0 for NULL).    *)
(* departed_at and returns_at are written once and never read by the engine; *)
(* the model leaves them out.                                                *)

\* ArmyRepository::create: the new row gets a fresh id and the column defaults
create(db, player_id, from_village_id, to, to_village_id, mission, trps, resources, arrives_at) ==
    LET id == db.next_army + 1
        row == [player_id |-> player_id, from_village_id |-> from_village_id,
                to |-> to, to_village_id |-> to_village_id, mission |-> mission,
                troops |-> trps, resources |-> resources, arrives_at |-> arrives_at,
                is_returning |-> FALSE, is_stationed |-> FALSE,
                battle_report_id |-> 0]
    IN  StmtOk([db EXCEPT !.next_army = id,
                          !.armies = [a \in DOMAIN db.armies \cup {id} |->
                                         IF a = id THEN row ELSE db.armies[a]]])

\* ArmyRepository::set_returning (fetch_one: the row must exist)
set_returning(db, id, returns_at, resources, surviving_troops, battle_report_id) ==
    IF id \notin DOMAIN db.armies THEN StmtErr(db)
    ELSE StmtOk([db EXCEPT !.armies[id].is_returning = TRUE,
                           !.armies[id].arrives_at = returns_at,
                           !.armies[id].resources = resources,
                           !.armies[id].troops = surviving_troops,
                           !.armies[id].battle_report_id = battle_report_id])

\* ArmyRepository::delete (execute)
delete(db, id) ==
    StmtOk([db EXCEPT !.armies = [a \in DOMAIN db.armies \ {id} |-> db.armies[a]]])

\* find_arrived without the returning armies
find_arrived_outbound(db, t) ==
    {a \in DOMAIN db.armies : /\ db.armies[a].arrives_at <= t
                              /\ ~db.armies[a].is_stationed
                              /\ ~db.armies[a].is_returning}

\* find_arrived without `is_stationed = FALSE`
find_arrived_with_stationed(db, t) ==
    {a \in DOMAIN db.armies : db.armies[a].arrives_at <= t}

\* ArmyRepository::find_arrived: arrives_at <= NOW() AND is_stationed = FALSE
find_arrived(db, t) ==
    {a \in DOMAIN db.armies : db.armies[a].arrives_at <= t /\ ~db.armies[a].is_stationed}

\* ArmyRepository::set_stationed (fetch_one)
set_stationed(db, id) ==
    IF id \notin DOMAIN db.armies THEN StmtErr(db)
    ELSE StmtOk([db EXCEPT !.armies[id].is_stationed = TRUE])

\* ArmyRepository::find_stationed_at_village, in id order
find_stationed_at_village(db, village_id) ==
    Ascending({a \in DOMAIN db.armies :
                  db.armies[a].to_village_id = village_id /\ db.armies[a].is_stationed})

\* start_recall without `is_stationed = FALSE` in its SET clause
start_recall_keeps_stationed(db, id, returns_at) ==
    IF id \notin DOMAIN db.armies THEN StmtErr(db)
    ELSE StmtOk([db EXCEPT !.armies[id].is_returning = TRUE,
                           !.armies[id].arrives_at = returns_at])

\* ArmyRepository::start_recall (fetch_one)
start_recall(db, id, returns_at) ==
    IF id \notin DOMAIN db.armies THEN StmtErr(db)
    ELSE StmtOk([db EXCEPT !.armies[id].is_stationed = FALSE,
                           !.armies[id].is_returning = TRUE,
                           !.armies[id].arrives_at = returns_at])

\* ArmyRepository::update_stationed_troops: delete when nobody is left
update_stationed_troops(db, id, surviving_troops) ==
    IF MapSum(surviving_troops) <= 0 THEN delete(db, id)
    ELSE IF id \notin DOMAIN db.armies THEN StmtOk(db)
    ELSE StmtOk([db EXCEPT !.armies[id].troops = surviving_troops])

\* ArmyRepository::create_battle_report and create_scout_report: append the row.
\* The field army is not a column: it records for which army the handler ran.
create_report(db, row) == StmtOk([db EXCEPT !.reports = Append(@, row)])

----------------------------------------------------------------------------
(* Buildings.  A building row is keyed by (village, slot) and holds          *)
(* building_type, level, is_upgrading and upgrade_ends_at.                   *)

Slots == {1}

\* the building types the model builds
BuildTypes == {"Warehouse", "Granary"}

\* every BuildingType
BuildingTypes ==
    {"MainBuilding", "Warehouse", "Granary", "Barracks", "Stable", "Workshop",
     "Academy", "Smithy", "RallyPoint", "Market", "Embassy", "TownHall", "Residence",
     "Palace", "Treasury", "TradeOffice", "Wall",
     "Woodcutter", "ClayPit", "IronMine", "CropField"}

\* BuildingType::is_resource_field
is_resource_field(ty) == ty \in {"Woodcutter", "ClayPit", "IronMine", "CropField"}

\* BuildingCost
Cost(w, c, i, cr, t) == [wood |-> w, clay |-> c, iron |-> i, crop |-> cr, time_seconds |-> t]

\* BuildingType::base_cost
base_cost(ty) ==
    CASE ty = "MainBuilding" -> Cost(70, 40, 60, 20, 300)
      [] ty = "Warehouse" -> Cost(130, 160, 90, 40, 400)
      [] ty = "Granary" -> Cost(80, 100, 70, 20, 350)
      [] ty = "Barracks" -> Cost(210, 140, 260, 120, 600)
      [] ty = "RallyPoint" -> Cost(110, 160, 90, 70, 250)
      [] ty = "Market" -> Cost(80, 70, 120, 70, 400)
      [] ty = "Woodcutter" -> Cost(40, 100, 50, 60, 260)
      [] ty = "ClayPit" -> Cost(80, 40, 80, 50, 220)
      [] ty = "IronMine" -> Cost(100, 80, 30, 60, 450)
      [] ty = "CropField" -> Cost(70, 90, 70, 20, 150)
      [] OTHER -> Cost(100, 100, 100, 50, 300)

\* (x as f64 * 1.28^n) as i32 for x >= 0, n >= 0: trunc(x * 128^n / 10^(2n))
TimesPow128(x, n) == BigTrunc(BigPow(Digits(x), 128, n), 2 * n)

\* BuildingType::cost_at_level
cost_at_level(ty, level) ==
    LET b == base_cost(ty)
        f(x) == TimesPow128(x, level - 1)
    IN  Cost(f(b.wood), f(b.clay), f(b.iron), f(b.crop), f(b.time_seconds))

\* BuildingType::production_per_hour:
\* (3 * 1.63^(level-1) * 1.0034^((level-1)^2)) as i32, for level >= 1
\*   = trunc(3 * 163^n * 10034^(n*n) / 10^(2n + 4n*n)) with n = level - 1;
\* at level 0 the product is 3 / 1.63 * 1.0034 = 1.84..., truncated to 1
production_per_hour(ty, level) ==
    IF ~is_resource_field(ty) THEN 0
    ELSE IF level <= 0 THEN 1
    ELSE LET n == level - 1
         IN  BigTrunc(BigPow(BigPow(Digits(3), 163, n), 10034, n * n), 2 * n + 4 * n * n)

\* BuildingType::max_level
max_level(ty) == 20

\* trunc(400 * 1.2^n): trunc(400 * 6^n / 5^n)
RECURSIVE TimesPow12(_, _, _)
TimesPow12(num, den, n) ==
    IF n = 0 THEN num \div den
    ELSE LET g == Gcd(num * 6, den * 5)
         IN  TimesPow12((num * 6) \div g, (den * 5) \div g, n - 1)

\* BuildingType::storage_capacity
storage_capacity(ty, level) ==
    IF level = 0 THEN 800
    ELSE IF ty \in {"Warehouse", "Granary"} THEN TimesPow12(400, 1, level)
    ELSE 0

\* BuildingRepository::create: a level-0 building in the slot
building_create(db, village_id, slot, ty) ==
    LET rows == db.buildings[village_id]
        row  == [building_type |-> ty, level |-> 0, is_upgrading |-> FALSE,
                 upgrade_ends_at |-> 0]
    IN  IF slot \in DOMAIN rows THEN StmtErr(db)
        ELSE StmtOk([db EXCEPT !.buildings[village_id] =
                        [sl \in DOMAIN rows \cup {slot} |->
                            IF sl = slot THEN row ELSE rows[sl]]])

\* BuildingRepository::start_upgrade
start_upgrade(db, village_id, slot, upgrade_ends_at) ==
    IF slot \notin DOMAIN db.buildings[village_id] THEN StmtErr(db)
    ELSE StmtOk([db EXCEPT !.buildings[village_id][slot].is_upgrading = TRUE,
                           !.buildings[village_id][slot].upgrade_ends_at = upgrade_ends_at])

\* complete_upgrade without the guard on is_upgrading and upgrade_ends_at
complete_upgrade_unguarded(db, village_id, slot, t) ==
    IF slot \in DOMAIN db.buildings[village_id]
    THEN StmtOk([db EXCEPT !.buildings[village_id][slot].level = @ + 1,
                           !.buildings[village_id][slot].is_upgrading = FALSE])
    ELSE StmtErr(db)

\* BuildingRepository::complete_upgrade: level + 1 and the flag cleared, for a
\* building that is upgrading and due
complete_upgrade(db, village_id, slot, t) ==
    LET rows == db.buildings[village_id]
    IN  IF slot \in DOMAIN rows /\ rows[slot].is_upgrading /\ rows[slot].upgrade_ends_at <= t
        THEN StmtOk([db EXCEPT !.buildings[village_id][slot].level = @ + 1,
                               !.buildings[village_id][slot].is_upgrading = FALSE])
        ELSE StmtErr(db)

\* BuildingRepository::demolish
demolish(db, village_id, slot) ==
    LET rows == db.buildings[village_id]
    IN  StmtOk([db EXCEPT !.buildings[village_id] =
                   [sl \in DOMAIN rows \ {slot} |-> rows[sl]]])

\* BuildingService::update_village_storage: 800 plus the storage capacity of
\* every Warehouse (Granary) of the village
update_village_storage(db, village_id) ==
    LET rows == db.buildings[village_id]
        cap(ty) == 800 + SumOver(
                      [sl \in DOMAIN rows |->
                          IF rows[sl].building_type = ty
                          THEN storage_capacity(ty, rows[sl].level) ELSE 0],
                      DOMAIN rows)
    IN  update_storage_capacity(db, village_id, cap("Warehouse"), cap("Granary"))

\* the ids (positions) of the training orders of a village
queue_of(db, village_id) ==
    {i \in DOMAIN db.troop_queue : db.troop_queue[i].village_id = village_id}

\* troop_repo::get_last_queue_end_time: SELECT MAX(ends_at) of the village's
\* orders.  Over no rows MAX is NULL, which the (DateTime<Utc>,) row does not
\* decode: the call returns an error (ok = FALSE).
get_last_queue_end_time(db, village_id) ==
    LET ends == {db.troop_queue[i].ends_at : i \in queue_of(db, village_id)}
    IN  IF ends = {} THEN [ok |-> FALSE, value |-> None]
        ELSE [ok |-> TRUE,
              value |-> Some(CHOOSE e \in ends : \A f \in ends : f <= e)]

\* troop_repo::add_to_queue: a plain INSERT of the order as the caller computed it
add_to_queue(db, village_id, troop_type, count, each_duration_seconds, started_at, ends_at) ==
    StmtOk([db EXCEPT !.troop_queue =
               Append(@, [village_id |-> village_id, troop_type |-> troop_type,
                          count |-> count,
                          each_duration_seconds |-> each_duration_seconds,
                          started_at |-> started_at, ends_at |-> ends_at])])


----------------------------------------------------------------------------
(* Statements.  A handler reads the store and then issues write statements  *)
(* one after the other; each is a record naming the repository function and *)
(* its arguments.  Exec runs one statement at time t.                       *)

Exec(db, s, t) ==
    CASE s.op = "remove_troops_from_village" ->
            remove_troops_from_village(db, s.village, s.troop_type, s.count)
      [] s.op = "return_troops_to_village" ->
            return_troops_to_village(db, s.village, s.troop_type, s.count)
      [] s.op = "kill_troops" -> kill_troops(db, s.village, s.troop_type, s.count)
      [] s.op = "add_troops" -> add_troops(db, s.village, s.troop_type, s.count)
      [] s.op = "create" ->
            create(db, s.player_id, s.from_village_id, s.to, s.to_village_id, s.mission,
                   s.troops, s.resources, s.arrives_at)
      [] s.op = "set_returning" ->
            \* initiate_return: returns_at = Utc::now() + travel_duration
            set_returning(db, s.id, t + s.travel, s.resources, s.troops,
                          IF s.with_report THEN Len(db.reports) ELSE 0)
      [] s.op = "delete" -> delete(db, s.id)
      [] s.op = "set_stationed" -> set_stationed(db, s.id)
      [] s.op = "start_recall" -> start_recall(db, s.id, t + s.travel)
      [] s.op = "update_stationed_troops" -> update_stationed_troops(db, s.id, s.troops)
      [] s.op = "deduct_resources" ->
            deduct_resources(db, s.village, s.res.wood, s.res.clay, s.res.iron, s.res.crop)
      [] s.op = "add_resources" ->
            add_resources(db, s.village, s.res.wood, s.res.clay, s.res.iron, s.res.crop)
      [] s.op = "update_loyalty" -> update_loyalty(db, s.village, s.loyalty)
      [] s.op = "transfer_ownership" -> transfer_ownership(db, s.village, s.new_owner_id)
      [] s.op = "create_report" -> create_report(db, s.row)
      [] s.op = "building_create" -> building_create(db, s.village, s.slot, s.building_type)
      [] s.op = "start_upgrade" -> start_upgrade(db, s.village, s.slot, s.upgrade_ends_at)
      [] s.op = "complete_upgrade" -> complete_upgrade(db, s.village, s.slot, t)
      [] s.op = "demolish" -> demolish(db, s.village, s.slot)
      [] s.op = "update_village_storage" -> update_village_storage(db, s.village)
      [] s.op = "update_resources" ->
            update_resources(db, s.village, s.res.wood, s.res.clay, s.res.iron, s.res.crop, t)
      [] s.op = "add_to_queue" ->
            add_to_queue(db, s.village, s.troop_type, s.count, s.each_duration_seconds,
                         s.started_at, s.ends_at)

\* Run the statements of plan in order at time t, stopping at the first error:
\* what has been written stays written (every statement commits on its own).
RECURSIVE Run(_, _, _)
Run(db, plan, t) ==
    IF plan = << >> THEN StmtOk(db)
    ELSE LET r == Exec(db, Head(plan), t)
         IN  IF r.ok THEN Run(r.db, Tail(plan), t) ELSE r

\* the statements F(x) of the elements x of seq, one after the other
FlatMap(seq, F(_)) ==
    LET RECURSIVE go(_)
        go(i) == IF i > Len(seq) THEN << >> ELSE F(seq[i]) \o go(i + 1)
    IN  go(1)

\* what a handler decides after its reads: the response kind and the statements
Reject(kind) == [res |-> kind, plan |-> << >>]

Accept(plan) == [res |-> "Ok", plan |-> plan]

----------------------------------------------------------------------------
(* ArmyService: dispatch *)

\* the mission kinds send_army accepts
SupportedMissions == {"Raid", "Attack", "Scout", "Support", "Conquer"}

\* ArmyService::send_army, the checks: the error returned, or "Ok".
\* request = [to, mission, troops, resources].
send_army_error(db, player_id, from_village_id, request) ==
    LET trps == request.troops
        from_village == db.villages[from_village_id]
        village_troops == find_by_village(db, from_village_id)
        available(ty) == IF ty \in DOMAIN village_troops
                         THEN village_troops[ty].in_village ELSE 0
        target_village == find_by_coordinates(request.to[1], request.to[2])
    IN  IF request.mission \notin SupportedMissions THEN "BadRequest"
        ELSE IF request.mission = "Conquer"
                /\ ~\E ty \in DOMAIN trps : trps[ty] > 0 /\ is_chief(ty)
        THEN "BadRequest"
        ELSE IF from_village.user_id # player_id THEN "Forbidden"
        ELSE IF \E ty \in DOMAIN trps : trps[ty] > 0 /\ available(ty) < trps[ty]
        THEN "BadRequest"
        ELSE IF MapSum(trps) <= 0 THEN "BadRequest"
        ELSE IF \E v \in target_village :
                    db.villages[v].user_id = player_id /\ is_hostile(request.mission)
        THEN "BadRequest"
        ELSE IF request.mission = "Support" /\ target_village = {}
        THEN "BadRequest"
        ELSE "Ok"

\* ArmyService::send_army, the writes: the troops leave the village, then the
\* army row is inserted
send_army_writes(db, player_id, from_village_id, request, t) ==
    LET trps == request.troops
        target_village == find_by_coordinates(request.to[1], request.to[2])
        travel_duration ==
            calculate_travel_time(
                calculate_distance2(VillageXY[from_village_id][1],
                                    VillageXY[from_village_id][2],
                                    request.to[1], request.to[2]),
                trps)
        removes == FlatMap(InOrder(DOMAIN trps),
                     LAMBDA ty : IF trps[ty] > 0
                                 THEN << [op |-> "remove_troops_from_village",
                                          village |-> from_village_id,
                                          troop_type |-> ty, count |-> trps[ty]] >>
                                 ELSE << >>)
        insert == [op |-> "create", player_id |-> player_id,
                   from_village_id |-> from_village_id, to |-> request.to,
                   to_village_id |-> IF target_village = {} THEN "none"
                                     ELSE CHOOSE v \in target_village : TRUE,
                   mission |-> request.mission, troops |-> trps,
                   resources |-> request.resources,
                   arrives_at |-> t + travel_duration]
    IN  removes \o << insert >>

\* send_army with the writes issued before the checks
send_army_writes_first(db, player_id, from_village_id, request, t) ==
    [res |-> send_army_error(db, player_id, from_village_id, request),
     plan |-> IF MapSum(request.troops) > 0
              THEN send_army_writes(db, player_id, from_village_id, request, t)
              ELSE << >>]

\* ArmyService::send_army: every check comes before the first write
send_army(db, player_id, from_village_id, request, t) ==
    IF send_army_error(db, player_id, from_village_id, request) = "Ok"
    THEN Accept(send_army_writes(db, player_id, from_village_id, request, t))
    ELSE Reject(send_army_error(db, player_id, from_village_id, request))

----------------------------------------------------------------------------
(* ArmyService: arrival.  army is the row find_arrived returned, id its id. *)

\* the village an arriving army finds: by to_village_id, else by coordinates
target_of(army) ==
    IF army.to_village_id # "none" THEN {army.to_village_id}
    ELSE find_by_coordinates(army.to[1], army.to[2])

\* ArmyService::initiate_return
initiate_return(id, army, survivors, resources, with_report) ==
    LET home == VillageXY[army.from_village_id]
        distance2 == calculate_distance2(army.to[1], army.to[2], home[1], home[2])
    IN  << [op |-> "set_returning", id |-> id,
            travel |-> calculate_travel_time(distance2, survivors),
            resources |-> resources, troops |-> survivors,
            with_report |-> with_report] >>

\* the garrison of a village: its rows with in_village > 0
garrison(db, village_id) ==
    LET rows == find_by_village(db, village_id)
    IN  [ty \in {k \in DOMAIN rows : rows[k].in_village > 0} |-> rows[ty].in_village]

\* the garrison plus the troops of the armies stationed at the village
total_defenders(db, village_troops, stationed_armies) ==
    LET ids == {stationed_armies[i] : i \in 1..Len(stationed_armies)}
        keys == DOMAIN village_troops \cup UNION {DOMAIN db.armies[a].troops : a \in ids}
    IN  [ty \in keys |->
            GetOr0(village_troops, ty)
            + SumOver([a \in ids |-> GetOr0(db.armies[a].troops, ty)], ids)]

\* the share of a loss that falls on a holder of `held` out of `total_count`
share(total_losses, held, total_count) ==
    IF total_count > 0 /\ held > 0
    THEN Min(CeilDiv(total_losses * held, total_count), held)
    ELSE 0

\* the kill_troops statements for the garrison's share of the defender losses
village_kills(target_id, village_troops, total_defender_troops, defender_losses) ==
    FlatMap(InOrder(DOMAIN defender_losses),
        LAMBDA ty :
            LET n == share(defender_losses[ty], GetOr0(village_troops, ty),
                           GetOr0(total_defender_troops, ty))
            IN  IF n > 0 THEN << [op |-> "kill_troops", village |-> target_id,
                                  troop_type |-> ty, count |-> n] >>
                ELSE << >>)

\* the update_stationed_troops statements for the stationed armies' shares
stationed_updates(db, stationed_armies, total_defender_troops, defender_losses) ==
    FlatMap(stationed_armies,
        LAMBDA a :
            LET held == db.armies[a].troops
                lost(ty) == IF ty \in DOMAIN defender_losses
                            THEN share(defender_losses[ty], GetOr0(held, ty),
                                       GetOr0(total_defender_troops, ty))
                            ELSE 0
                stationed_survivors ==
                    [ty \in {k \in DOMAIN held : held[k] - lost(k) > 0 \/ lost(k) = 0} |->
                        held[ty] - lost(ty)]
            IN  IF \E ty \in DOMAIN held : lost(ty) > 0
                THEN << [op |-> "update_stationed_troops", id |-> a,
                         troops |-> stationed_survivors] >>
                ELSE << >>)

\* the winner tag of a battle report
winner_of(battle) ==
    IF battle.attacker_wins THEN "attacker"
    ELSE IF MapSum(battle.defender_survivors) > 0 THEN "defender"
    ELSE "draw"

\* the battle report row of handle_hostile_arrival and handle_conquer_arrival
battle_report(id, army, target_id, target, mission, total_defender_troops, battle, stolen_resources) ==
    [op |-> "create_report",
     row |-> [kind |-> "battle", army |-> id,
              attacker_player_id |-> army.player_id,
              defender_player_id |-> target.user_id,
              attacker_village_id |-> army.from_village_id,
              defender_village_id |-> target_id,
              mission |-> mission,
              attacker_troops |-> army.troops,
              defender_troops |-> total_defender_troops,
              attacker_losses |-> battle.attacker_losses,
              defender_losses |-> battle.defender_losses,
              resources_stolen |-> stolen_resources,
              winner |-> winner_of(battle)]]

\* ArmyService::handle_hostile_arrival (Raid and Attack)
handle_hostile_arrival(db, id, army) ==
    IF target_of(army) = {}
    THEN Accept(initiate_return(id, army, army.troops, NoResources, FALSE))
    ELSE
    Bind(CHOOSE v \in target_of(army) : TRUE, LAMBDA target_id :
    Bind(db.villages[target_id], LAMBDA target :
    Bind(garrison(db, target_id), LAMBDA village_troops :
    Bind(find_stationed_at_village(db, target_id), LAMBDA stationed_armies :
    Bind(total_defenders(db, village_troops, stationed_armies),
         LAMBDA total_defender_troops :
    Bind(calculate_battle(army.troops, total_defender_troops, army.mission),
         LAMBDA battle :
    Bind(IF battle.attacker_wins
         THEN calculate_stolen_resources(target, battle.attacker_survivors, army.mission)
         ELSE NoResources,
         LAMBDA stolen_resources :
        Accept(village_kills(target_id, village_troops, total_defender_troops,
                             battle.defender_losses)
               \o stationed_updates(db, stationed_armies, total_defender_troops,
                                    battle.defender_losses)
               \o (IF total(stolen_resources) > 0
                   THEN << [op |-> "deduct_resources", village |-> target_id,
                            res |-> stolen_resources] >>
                   ELSE << >>)
               \o << battle_report(id, army, target_id, target, army.mission,
                                   total_defender_troops, battle, stolen_resources) >>
               \o (IF MapSum(battle.attacker_survivors) > 0 /\ returns(army.mission)
                   THEN initiate_return(id, army, battle.attacker_survivors,
                                        stolen_resources, TRUE)
                   ELSE << [op |-> "delete", id |-> id] >>)))))))))

\* ArmyService::calculate_scout_power: the sum of speed * count
calculate_scout_power(trps) ==
    SumOver([t \in DOMAIN trps |-> definitions[t].speed * trps[t]], DOMAIN trps)

\* ArmyService::calculate_scout_survivors
calculate_scout_survivors(trps, total_losses, total_count) ==
    IF total_count <= 0 \/ total_losses <= 0 THEN trps
    ELSE LET left(t) == Max(trps[t] - CeilDiv(trps[t] * total_losses, total_count), 0)
         IN  [t \in {k \in DOMAIN trps : left(k) > 0} |-> left(t)]

\* scout_losses with the ratios of a successful scouting on both branches
scout_losses_as_if_successful(rn, rd, attacker_scout_count, defender_scout_count) ==
    << Min(CeilDiv(attacker_scout_count * 8 * (rd - rn), 10 * rd), attacker_scout_count),
       Min(CeilDiv(defender_scout_count * 5 * rn, 10 * rd), defender_scout_count) >>

\* the (attacker_losses, defender_losses) of handle_scout_arrival, for
\* attacker_ratio = rn / rd and the two scout counts
scout_losses(rn, rd, attacker_scout_count, defender_scout_count) ==
    IF 10 * rn > 4 * rd
    THEN \* (1 - ratio) * 0.8 and ratio * 0.5
         << Min(CeilDiv(attacker_scout_count * 8 * (rd - rn), 10 * rd),
                attacker_scout_count),
            Min(CeilDiv(defender_scout_count * 5 * rn, 10 * rd), defender_scout_count) >>
    ELSE \* 0.9 + (1 - ratio) * 0.1 and 0.1
         << Min(CeilDiv(attacker_scout_count * (9 * rd + (rd - rn)), 10 * rd),
                attacker_scout_count),
            Min(CeilDiv(defender_scout_count, 10), defender_scout_count) >>

\* the kill_troops statements of handle_scout_arrival
scout_kills(target_id, defender_troops, defender_losses) ==
    IF defender_losses > 0
    THEN FlatMap(InOrder(DOMAIN defender_troops),
            LAMBDA ty :
                Bind(CeilDiv(defender_losses * defender_troops[ty],
                             MapSum(defender_troops)),
                     LAMBDA losses :
                        IF losses > 0
                        THEN << [op |-> "kill_troops", village |-> target_id,
                                 troop_type |-> ty,
                                 count |-> Min(losses, defender_troops[ty])] >>
                        ELSE << >>))
    ELSE << >>

\* scouted_info of a report that shows the target whatever the outcome
scouted_info_always(success, info) == Some(info)

\* the scouted info of handle_scout_arrival (only if successful)
scouted_info(success, info) == IF success THEN Some(info) ELSE None

\* ArmyService::handle_scout_arrival
handle_scout_arrival(db, id, army) ==
    IF target_of(army) = {}
    THEN Accept(initiate_return(id, army, army.troops, NoResources, FALSE))
    ELSE
    Bind(CHOOSE v \in target_of(army) : TRUE, LAMBDA target_id :
    Bind(db.villages[target_id], LAMBDA target :
    Bind(garrison(db, target_id), LAMBDA defender_troops :
    Bind(calculate_scout_power(army.troops), LAMBDA attacker_scout_power :
    Bind(calculate_scout_power(defender_troops), LAMBDA defender_scout_power :
    Bind(attacker_scout_power + defender_scout_power, LAMBDA total_power :
    \* attacker_ratio = ratio[1] / ratio[2]
    Bind(IF total_power > 0 THEN << attacker_scout_power, total_power >> ELSE << 1, 1 >>,
         LAMBDA ratio :
    Bind(IF defender_scout_power > 0
         THEN scout_losses(ratio[1], ratio[2], MapSum(army.troops),
                           MapSum(defender_troops))
         ELSE << 0, 0 >>,
         LAMBDA losses :
    Bind(calculate_scout_survivors(army.troops, losses[1], MapSum(army.troops)),
         LAMBDA survivors :
        Accept(scout_kills(target_id, defender_troops, losses[2])
               \o << [op |-> "create_report",
                      row |-> [kind |-> "scout", army |-> id,
                               attacker_player_id |-> army.player_id,
                               defender_player_id |-> target.user_id,
                               attacker_village_id |-> army.from_village_id,
                               defender_village_id |-> target_id,
                               attacker_scouts |-> MapSum(army.troops),
                               defender_scouts |-> MapSum(defender_troops),
                               attacker_losses |-> losses[1],
                               defender_losses |-> losses[2],
                               success |-> 10 * ratio[1] > 4 * ratio[2],
                               scouted_resources |->
                                   scouted_info(10 * ratio[1] > 4 * ratio[2],
                                                Res(target.wood, target.clay,
                                                    target.iron, target.crop)),
                               scouted_troops |->
                                   scouted_info(10 * ratio[1] > 4 * ratio[2],
                                                defender_troops)]] >>
               \o (IF MapSum(survivors) > 0
                   THEN initiate_return(id, army, survivors, NoResources, FALSE)
                   ELSE << [op |-> "delete", id |-> id] >>)))))))))))

\* ArmyService::handle_support_arrival
handle_support_arrival(db, id, army) ==
    IF target_of(army) = {}
    THEN Accept(initiate_return(id, army, army.troops, NoResources, FALSE))
    ELSE Accept(<< [op |-> "set_stationed", id |-> id] >>)

\* loyalty_reduction with every surviving chief type counted once
loyalty_reduction_per_type(battle) ==
    IF battle.attacker_wins
    THEN Bind({ty \in DOMAIN battle.attacker_survivors :
                  battle.attacker_survivors[ty] > 0 /\ is_chief(ty)},
              LAMBDA chiefs :
                 SumOver([ty \in chiefs |-> definitions[ty].loyalty_reduction], chiefs))
    ELSE 0

\* the loyalty a winning army takes: the sum of loyalty_reduction * count over
\* its surviving chiefs
loyalty_reduction(battle) ==
    IF battle.attacker_wins
    THEN Bind({ty \in DOMAIN battle.attacker_survivors :
                  battle.attacker_survivors[ty] > 0 /\ is_chief(ty)},
              LAMBDA chiefs :
                 SumOver([ty \in chiefs |-> definitions[ty].loyalty_reduction
                                            * battle.attacker_survivors[ty]], chiefs))
    ELSE 0

\* conquer_updates without the reset of the loyalty after the transfer
conquer_updates_without_reset(target_id, army, loyalty_reduced, new_loyalty) ==
    IF loyalty_reduced > 0
    THEN << [op |-> "update_loyalty", village |-> target_id, loyalty |-> new_loyalty] >>
         \o (IF new_loyalty <= 0
             THEN << [op |-> "transfer_ownership", village |-> target_id,
                      new_owner_id |-> army.player_id] >>
             ELSE << >>)
    ELSE << >>

\* the loyalty and ownership statements of handle_conquer_arrival
conquer_updates(target_id, army, loyalty_reduced, new_loyalty) ==
    IF loyalty_reduced > 0
    THEN << [op |-> "update_loyalty", village |-> target_id, loyalty |-> new_loyalty] >>
         \o (IF new_loyalty <= 0
             THEN << [op |-> "transfer_ownership", village |-> target_id,
                      new_owner_id |-> army.player_id],
                     [op |-> "update_loyalty", village |-> target_id, loyalty |-> 25] >>
             ELSE << >>)
    ELSE << >>

\* conquer_return with the resources the army set out with left on it
conquer_return_keeps_cargo(id, army, battle) ==
    IF MapSum(battle.attacker_survivors) > 0
    THEN initiate_return(id, army, battle.attacker_survivors, army.resources, TRUE)
    ELSE << [op |-> "delete", id |-> id] >>

\* the end of handle_conquer_arrival: the survivors turn home with
\* CarriedResources::default(), an army without survivors is deleted
conquer_return(id, army, battle) ==
    IF MapSum(battle.attacker_survivors) > 0
    THEN initiate_return(id, army, battle.attacker_survivors, NoResources, TRUE)
    ELSE << [op |-> "delete", id |-> id] >>

\* ArmyService::handle_conquer_arrival
handle_conquer_arrival(db, id, army) ==
    IF target_of(army) = {}
    THEN Accept(initiate_return(id, army, army.troops, NoResources, FALSE))
    ELSE
    Bind(CHOOSE v \in target_of(army) : TRUE, LAMBDA target_id :
    Bind(db.villages[target_id], LAMBDA target :
    IF target.user_id = army.player_id \/ target.is_capital
    THEN Accept(initiate_return(id, army, army.troops, NoResources, FALSE))
    ELSE
    Bind(garrison(db, target_id), LAMBDA village_troops :
    Bind(find_stationed_at_village(db, target_id), LAMBDA stationed_armies :
    Bind(total_defenders(db, village_troops, stationed_armies),
         LAMBDA total_defender_troops :
    Bind(calculate_battle(army.troops, total_defender_troops, "Attack"),
         LAMBDA battle :
    Bind(loyalty_reduction(battle), LAMBDA loyalty_reduced :
        Accept(village_kills(target_id, village_troops, total_defender_troops,
                             battle.defender_losses)
               \o stationed_updates(db, stationed_armies, total_defender_troops,
                                    battle.defender_losses)
               \o conquer_updates(target_id, army, loyalty_reduced,
                                  Max(target.loyalty - loyalty_reduced, 0))
               \o << battle_report(id, army, target_id, target, "Conquer",
                                   total_defender_troops, battle, NoResources) >>
               \o conquer_return(id, army, battle)))))))))

\* ArmyService::handle_returning_army
handle_returning_army(db, id, army) ==
    Accept(FlatMap(InOrder(DOMAIN army.troops),
               LAMBDA ty : IF army.troops[ty] > 0
                           THEN << [op |-> "return_troops_to_village",
                                    village |-> army.from_village_id,
                                    troop_type |-> ty, count |-> army.troops[ty]] >>
                           ELSE << >>)
           \o (IF total(army.resources) > 0
               THEN << [op |-> "add_resources", village |-> army.from_village_id,
                        res |-> army.resources] >>
               ELSE << >>)
           \o << [op |-> "delete", id |-> id] >>)

\* one iteration of the loop of ArmyService::process_arrived_armies: the handler
\* chosen for the row the sweep holds
handle_arrived(db, id, army) ==
    IF army.is_returning THEN handle_returning_army(db, id, army)
    ELSE CASE army.mission \in {"Raid", "Attack"} -> handle_hostile_arrival(db, id, army)
           [] army.mission = "Scout" -> handle_scout_arrival(db, id, army)
           [] army.mission = "Support" -> handle_support_arrival(db, id, army)
           [] army.mission = "Conquer" -> handle_conquer_arrival(db, id, army)
           [] OTHER -> Accept(<< >>)

\* recall_support without the `Must be stationed` check
recall_support_unchecked(db, army_id, player_id) ==
    IF army_id \notin DOMAIN db.armies THEN Reject("NotFound")
    ELSE LET army == db.armies[army_id]
             home == VillageXY[army.from_village_id]
             distance2 == calculate_distance2(army.to[1], army.to[2], home[1], home[2])
         IN  IF army.player_id # player_id THEN Reject("Forbidden")
             ELSE Accept(<< [op |-> "start_recall", id |-> army_id,
                             travel |-> calculate_travel_time(distance2, army.troops)] >>)

\* ArmyService::recall_support
recall_support(db, army_id, player_id) ==
    IF army_id \notin DOMAIN db.armies THEN Reject("NotFound")
    ELSE LET army == db.armies[army_id]
             home == VillageXY[army.from_village_id]
             distance2 == calculate_distance2(army.to[1], army.to[2], home[1], home[2])
         IN  IF army.player_id # player_id THEN Reject("Forbidden")
             ELSE IF ~army.is_stationed THEN Reject("BadRequest")
             ELSE Accept(<< [op |-> "start_recall", id |-> army_id,
                             travel |-> calculate_travel_time(distance2, army.troops)] >>)

----------------------------------------------------------------------------
(* Building handlers (handlers/building.rs) and the completion job *)

\* the cost check shared by build and upgrade
cannot_afford(village, cost) ==
    \/ village.wood < cost.wood
    \/ village.clay < cost.clay
    \/ village.iron < cost.iron
    \/ village.crop < cost.crop

\* handlers::building::build
build(db, user_id, village_id, slot, ty, t) ==
    LET village == db.villages[village_id]
        cost == cost_at_level(ty, 1)
    IN  IF village.user_id # user_id THEN Reject("Forbidden")
        ELSE IF slot \in DOMAIN db.buildings[village_id] THEN Reject("Conflict")
        ELSE IF cannot_afford(village, cost) THEN Reject("BadRequest")
        ELSE Accept(<< [op |-> "deduct_resources", village |-> village_id,
                        res |-> Res(cost.wood, cost.clay, cost.iron, cost.crop)],
                       [op |-> "building_create", village |-> village_id,
                        slot |-> slot, building_type |-> ty],
                       [op |-> "start_upgrade", village |-> village_id, slot |-> slot,
                        upgrade_ends_at |-> t + cost.time_seconds] >>)

\* handlers::building::upgrade
upgrade(db, user_id, village_id, slot, t) ==
    LET village == db.villages[village_id]
        rows == db.buildings[village_id]
    IN  IF village.user_id # user_id THEN Reject("Forbidden")
        ELSE IF slot \notin DOMAIN rows THEN Reject("NotFound")
        ELSE IF rows[slot].is_upgrading THEN Reject("Conflict")
        ELSE IF rows[slot].level + 1 > max_level(rows[slot].building_type)
        THEN Reject("BadRequest")
        ELSE LET cost == cost_at_level(rows[slot].building_type, rows[slot].level + 1)
             IN  IF cannot_afford(village, cost) THEN Reject("BadRequest")
                 ELSE Accept(<< [op |-> "deduct_resources", village |-> village_id,
                                 res |-> Res(cost.wood, cost.clay, cost.iron, cost.crop)],
                                [op |-> "start_upgrade", village |-> village_id,
                                 slot |-> slot,
                                 upgrade_ends_at |-> t + cost.time_seconds] >>)

\* handlers::building::demolish
handler_demolish(db, user_id, village_id, slot) ==
    LET rows == db.buildings[village_id]
    IN  IF db.villages[village_id].user_id # user_id THEN Reject("Forbidden")
        ELSE IF slot \notin DOMAIN rows THEN Reject("NotFound")
        ELSE IF rows[slot].building_type = "MainBuilding" /\ rows[slot].level > 0
        THEN Reject("BadRequest")
        ELSE Accept(<< [op |-> "demolish", village |-> village_id, slot |-> slot] >>)

\* BuildingService::complete_upgrade recomputing the storage for every type
service_complete_upgrade_any_type(db, village_id, slot) ==
    << [op |-> "complete_upgrade", village |-> village_id, slot |-> slot],
       [op |-> "update_village_storage", village |-> village_id] >>

\* BuildingService::complete_upgrade: complete, then recompute the storage of
\* the village for a Warehouse or a Granary
service_complete_upgrade(db, village_id, slot) ==
    << [op |-> "complete_upgrade", village |-> village_id, slot |-> slot] >>
    \o (IF db.buildings[village_id][slot].building_type \in {"Warehouse", "Granary"}
        THEN << [op |-> "update_village_storage", village |-> village_id] >>
        ELSE << >>)

\* BuildingRepository::find_completed_upgrades: the buildings upgrading and due
find_completed_upgrades(db, t) ==
    {b \in UNION {{v} \X DOMAIN db.buildings[v] : v \in Villages} :
        /\ db.buildings[b[1]][b[2]].is_upgrading
        /\ db.buildings[b[1]][b[2]].upgrade_ends_at <= t}

\* background_jobs::complete_building_upgrades: every due building in turn,
\* an error of one logged and skipped
RECURSIVE complete_building_upgrades(_, _, _)
complete_building_upgrades(db, due, t) ==
    IF due = {} THEN db
    ELSE LET b == CHOOSE x \in due : TRUE
             r == Run(db, service_complete_upgrade(db, b[1], b[2]), t)
         IN  complete_building_upgrades(r.db, due \ {b}, t)

\* ArmyService::process_arrived_armies: every row of the snapshot in turn, an
\* error of one logged and skipped.  queue holds [id, army] as find_arrived
\* returned them.
RECURSIVE process_arrived_armies(_, _, _)
process_arrived_armies(db, queue, t) ==
    IF queue = << >> THEN db
    ELSE LET e == Head(queue)
             r == Run(db, handle_arrived(db, e.id, e.army).plan, t)
         IN  process_arrived_armies(r.db, Tail(queue), t)

\* the orders in which a query without ORDER BY may return the rows S
Orders(S) ==
    {q \in [1..Cardinality(S) -> S] : \A i, j \in DOMAIN q : q[i] = q[j] => i = j}

\* the snapshot find_arrived returns, in the order q
snapshot(db, q) == [i \in DOMAIN q |-> [id |-> q[i], army |-> db.armies[q[i]]]]

----------------------------------------------------------------------------
(* The initial state and the requests the model sends *)

\* a send_army request body (SendArmyRequest); `resources` defaults to zero
Request(to, mission, trps, resources) ==
    [to |-> to, mission |-> mission, troops |-> trps, resources |-> resources]

\* the send_army requests the players make
Requests ==
    { Request(<<6, 0>>, "Raid", [Infantry |-> 2], NoResources),
      Request(<<6, 0>>, "Attack", [Infantry |-> 3, RoyalAdvisor |-> 1], NoResources),
      Request(<<6, 0>>, "Conquer", [Infantry |-> 3, RoyalAdvisor |-> 1], NoResources),
      Request(<<6, 0>>, "Conquer", [Infantry |-> 2], NoResources),
      Request(<<6, 0>>, "Scout", [Infantry |-> 1], NoResources),
      Request(<<6, 0>>, "Support", [Infantry |-> 1], Res(60, 0, 0, 0)),
      Request(<<6, 0>>, "Settle", [Infantry |-> 1], NoResources),
      Request(<<0, 6>>, "Raid", [Infantry |-> 2, Spearman |-> 0, RoyalAdvisor |-> -1],
              NoResources),
      Request(<<0, 6>>, "Support", [Infantry |-> 1], NoResources),
      Request(<<6, 0>>, "Raid", [Infantry |-> 0], NoResources),
      Request(<<0, 0>>, "Attack", [Spearman |-> 2], NoResources),
      Request(<<0, 0>>, "Raid", [Spearman |-> 3], NoResources) }

\* the troop types whose training completes in the model
TrainTypes == {"Infantry"}

\* a task with nothing to do
Idle == [pc |-> "idle"]

TaskIds == {"c1", "c2", "sweep"}

Init ==
    /\ now = 0
    /\ villages =
         [v1 |-> [user_id |-> "p1", is_capital |-> TRUE,
                  wood |-> 1000, clay |-> 400, iron |-> 400, crop |-> 400,
                  warehouse_capacity |-> 1280, granary_capacity |-> 800,
                  loyalty |-> 100],
          v2 |-> [user_id |-> "p2", is_capital |-> FALSE,
                  wood |-> 300, clay |-> 90, iron |-> 300, crop |-> 300,
                  warehouse_capacity |-> 800, granary_capacity |-> 800,
                  loyalty |-> 25]]
    /\ troops =
         [v1 |-> [Infantry |-> [count |-> 3, in_village |-> 3],
                  RoyalAdvisor |-> [count |-> 1, in_village |-> 1]],
          v2 |-> [Spearman |-> [count |-> 2, in_village |-> 2]]]
    /\ armies = [a \in {} |-> 0]
    /\ buildings =
         [v1 |-> [sl \in {1} |-> [building_type |-> "Warehouse", level |-> 1,
                                  is_upgrading |-> FALSE, upgrade_ends_at |-> 0]],
          v2 |-> [sl \in {} |-> 0]]
    /\ reports = << >>
    /\ troop_queue = << >>
    /\ next_army = 0
    /\ result = [kind |-> "none"]
    /\ trained = 0
    /\ builds = 0
    /\ tasks = [k \in TaskIds |-> Idle]
    /\ faults = 0

\* the store after a handler: every table takes the value the statements left
Install(db) ==
    /\ villages' = db.villages
    /\ troops' = db.troops
    /\ armies' = db.armies
    /\ buildings' = db.buildings
    /\ reports' = db.reports
    /\ troop_queue' = db.troop_queue
    /\ next_army' = db.next_army

----------------------------------------------------------------------------
(* Spec: every handler runs from its first read to its last write in one    *)
(* step (requests served one at a time).                                     *)

\* POST /api/villages/:id/armies
SendArmy(player_id, from_village_id, request) ==
    /\ next_army < MaxArmies
    /\ LET d == send_army(Store, player_id, from_village_id, request, now)
           r == Run(Store, d.plan, now)
       IN  Install(r.db)
    /\ UNCHANGED << now, result, trained, builds, tasks, faults >>

\* the movement sweep: ArmyService::process_arrived_armies
ProcessArrived(q) ==
    /\ q # << >>
    /\ Install(process_arrived_armies(Store, snapshot(Store, q), now))
    /\ UNCHANGED << now, result, trained, builds, tasks, faults >>

\* POST /api/armies/:id/recall
RecallSupport(player_id, army_id) ==
    /\ LET d == recall_support(Store, army_id, player_id)
           r == Run(Store, d.plan, now)
       IN  Install(r.db)
    /\ UNCHANGED << now, result, trained, builds, tasks, faults >>

\* POST /api/villages/:village_id/buildings/:slot
Build(user_id, village_id, slot, ty) ==
    /\ builds < MaxBuilds
    /\ LET d == build(Store, user_id, village_id, slot, ty, now)
           r == Run(Store, d.plan, now)
       IN  /\ Install(r.db)
           /\ builds' = IF d.res = "Ok" THEN builds + 1 ELSE builds
    /\ UNCHANGED << now, result, trained, tasks, faults >>

\* POST /api/villages/:village_id/buildings/:slot/upgrade
Upgrade(user_id, village_id, slot) ==
    /\ builds < MaxBuilds
    /\ LET d == upgrade(Store, user_id, village_id, slot, now)
           r == Run(Store, d.plan, now)
       IN  /\ Install(r.db)
           /\ builds' = IF d.res = "Ok" THEN builds + 1 ELSE builds
    /\ UNCHANGED << now, result, trained, tasks, faults >>

\* DELETE /api/villages/:village_id/buildings/:slot
Demolish(user_id, village_id, slot) ==
    /\ builds < MaxBuilds
    /\ LET d == handler_demolish(Store, user_id, village_id, slot)
           r == Run(Store, d.plan, now)
       IN  /\ Install(r.db)
           /\ builds' = IF d.res = "Ok" THEN builds + 1 ELSE builds
    /\ UNCHANGED << now, result, trained, tasks, faults >>

\* the building completion job
CompleteUpgrades ==
    /\ find_completed_upgrades(Store, now) # {}
    /\ Install(complete_building_upgrades(Store, find_completed_upgrades(Store, now), now))
    /\ UNCHANGED << now, result, trained, builds, tasks, faults >>

\* a training queue entry completes: the trained unit is credited to the village
TrainingComplete(village_id, troop_type) ==
    /\ trained < MaxTrained
    /\ trained' = trained + 1
    /\ Install(Run(Store, << [op |-> "add_troops", village |-> village_id,
                              troop_type |-> troop_type, count |-> 1] >>, now).db)
    /\ UNCHANGED << now, result, builds, tasks, faults >>

\* the deadlines still ahead: arrivals and upgrade ends
deadlines ==
    {armies[a].arrives_at : a \in {x \in DOMAIN armies : ~armies[x].is_stationed}}
    \cup {buildings[b[1]][b[2]].upgrade_ends_at :
            b \in {x \in UNION {{v} \X DOMAIN buildings[v] : v \in Villages} :
                    buildings[x[1]][x[2]].is_upgrading}}

\* time passes, up to the next deadline
Tick ==
    /\ \E d \in deadlines : d > now
    /\ now' = CHOOSE d \in deadlines : d > now /\ \A e \in deadlines : e > now => d <= e
    /\ UNCHANGED << villages, troops, armies, buildings, reports, troop_queue,
                    next_army, result,
                    trained, builds, tasks, faults >>

Next ==
    \/ \E p \in Players, v \in Villages, request \in Requests : SendArmy(p, v, request)
    \/ \E q \in Orders(find_arrived(Store, now)) : ProcessArrived(q)
    \/ \E p \in Players, a \in 1..MaxArmies : RecallSupport(p, a)
    \/ \E p \in Players, v \in Villages, sl \in Slots, ty \in BuildTypes : Build(p, v, sl, ty)
    \/ \E p \in Players, v \in Villages, sl \in Slots : Upgrade(p, v, sl)
    \/ \E p \in Players, v \in Villages, sl \in Slots : Demolish(p, v, sl)
    \/ CompleteUpgrades
    \/ \E v \in Villages, ty \in TrainTypes : TrainingComplete(v, ty)
    \/ Tick

Spec == Init /\ [][Next]_vars

----------------------------------------------------------------------------
(* SpecSteps: every statement is a step of its own.  The handlers hold no    *)
(* transaction and no lock, so the statements of requests served at the same *)
(* time and of the movement sweep interleave, and a statement may fail.      *)
(* A request task is [pc |-> "run", op, plan]; the sweep task is             *)
(* [pc |-> "sweep", queue, cur, plan, wrote, err]: the rows of the snapshot  *)
(* still to handle, the army being handled, the statements left of its       *)
(* handler, whether that handler has changed the store, whether it failed.   *)

Clients == {"c1", "c2"}

\* the send_army requests made concurrently
StepRequests ==
    { Request(<<6, 0>>, "Raid", [Infantry |-> 2], NoResources),
      Request(<<6, 0>>, "Attack", [Infantry |-> 3, RoyalAdvisor |-> 1], NoResources),
      Request(<<6, 0>>, "Support", [Infantry |-> 1], NoResources),
      Request(<<0, 0>>, "Attack", [Spearman |-> 2], NoResources) }

\* the send_army requests accepted and not yet finished
sending == {c \in Clients : tasks[c].pc = "run" /\ tasks[c].op = "send_army"}

\* send_army: the reads and the checks, up to the first write
BeginSend(c, player_id, from_village_id, request) ==
    /\ tasks[c].pc = "idle"
    /\ next_army + Cardinality(sending) < MaxArmies
    /\ LET d == send_army(Store, player_id, from_village_id, request, now)
       IN  /\ d.res = "Ok"
           /\ tasks' = [tasks EXCEPT ![c] = [pc |-> "run", op |-> "send_army",
                                             plan |-> d.plan]]
    /\ UNCHANGED << now, villages, troops, armies, buildings, reports, troop_queue,
                    next_army,
                    result, trained, builds, faults >>

\* recall_support: the reads and the checks
BeginRecall(c, player_id, army_id) ==
    /\ tasks[c].pc = "idle"
    /\ LET d == recall_support(Store, army_id, player_id)
       IN  /\ d.res = "Ok"
           /\ tasks' = [tasks EXCEPT ![c] = [pc |-> "run", op |-> "recall_support",
                                             plan |-> d.plan]]
    /\ UNCHANGED << now, villages, troops, armies, buildings, reports, troop_queue,
                    next_army,
                    result, trained, builds, faults >>

\* the next statement of a request; an error ends the request
ClientStep(c) ==
    /\ tasks[c].pc = "run"
    /\ LET r == Exec(Store, Head(tasks[c].plan), now)
       IN  /\ Install(r.db)
           /\ tasks' = [tasks EXCEPT ![c] =
                           IF r.ok /\ Len(tasks[c].plan) > 1
                           THEN [tasks[c] EXCEPT !.plan = Tail(@)]
                           ELSE Idle]
    /\ UNCHANGED << now, result, trained, builds, faults >>

\* the sweep starts: process_arrived_armies reads find_arrived
SweepBegin(q) ==
    /\ tasks["sweep"].pc = "idle"
    /\ q # << >>
    /\ tasks' = [tasks EXCEPT !["sweep"] =
                    [pc |-> "sweep", queue |-> snapshot(Store, q), cur |-> 0,
                     plan |-> << >>, wrote |-> FALSE, err |-> FALSE]]
    /\ UNCHANGED << now, villages, troops, armies, buildings, reports, troop_queue,
                    next_army,
                    result, trained, builds, faults >>

\* the sweep turns to the next row of its snapshot: the handler's reads
SweepNext ==
    /\ tasks["sweep"].pc = "sweep"
    /\ tasks["sweep"].plan = << >>
    /\ tasks["sweep"].queue # << >>
    /\ LET e == Head(tasks["sweep"].queue)
       IN  tasks' = [tasks EXCEPT !["sweep"] =
                        [pc |-> "sweep", queue |-> Tail(tasks["sweep"].queue),
                         cur |-> e.id, plan |-> handle_arrived(Store, e.id, e.army).plan,
                         wrote |-> FALSE, err |-> FALSE]]
    /\ UNCHANGED << now, villages, troops, armies, buildings, reports, troop_queue,
                    next_army,
                    result, trained, builds, faults >>

\* the next statement of the handler the sweep is in; an error ends the handler
\* (logged), and the sweep goes on
SweepStep ==
    /\ tasks["sweep"].pc = "sweep"
    /\ tasks["sweep"].plan # << >>
    /\ LET r == Exec(Store, Head(tasks["sweep"].plan), now)
       IN  /\ Install(r.db)
           /\ tasks' = [tasks EXCEPT !["sweep"] =
                           [@ EXCEPT !.plan = IF r.ok THEN Tail(@) ELSE << >>,
                                     !.wrote = @ \/ r.db # Store,
                                     !.err = ~r.ok]]
    /\ UNCHANGED << now, result, trained, builds, faults >>

\* the sweep has handled every row of its snapshot
SweepEnd ==
    /\ tasks["sweep"].pc = "sweep"
    /\ tasks["sweep"].plan = << >>
    /\ tasks["sweep"].queue = << >>
    /\ tasks' = [tasks EXCEPT !["sweep"] = Idle]
    /\ UNCHANGED << now, villages, troops, armies, buildings, reports, troop_queue,
                    next_army,
                    result, trained, builds, faults >>

\* the store fails the next statement of the sweep's handler (connection lost,
\* timeout): sqlx returns Err and nothing is written
SweepFault ==
    /\ faults < MaxFaults
    /\ tasks["sweep"].pc = "sweep"
    /\ tasks["sweep"].plan # << >>
    /\ faults' = faults + 1
    /\ tasks' = [tasks EXCEPT !["sweep"] = [@ EXCEPT !.plan = << >>, !.err = TRUE]]
    /\ UNCHANGED << now, villages, troops, armies, buildings, reports, troop_queue,
                    next_army,
                    result, trained, builds >>

NextSteps ==
    \/ \E c \in Clients, p \in Players, v \in Villages, request \in StepRequests :
          BeginSend(c, p, v, request)
    \/ \E c \in Clients, p \in Players, a \in 1..MaxArmies : BeginRecall(c, p, a)
    \/ \E c \in Clients : ClientStep(c)
    \/ \E q \in Orders(find_arrived(Store, now)) : SweepBegin(q)
    \/ SweepNext
    \/ SweepStep
    \/ SweepEnd
    \/ SweepFault
    \/ Tick

SpecSteps == Init /\ [][NextSteps]_vars

----------------------------------------------------------------------------
(* Properties *)

\* the units of type ty held by the armies dispatched from village v
OnMission(v, ty) ==
    LET ids == {a \in DOMAIN armies : armies[a].from_village_id = v}
    IN  SumOver([a \in ids |-> Max(GetOr0(armies[a].troops, ty), 0)], ids)

\* the carry capacity of a troop map
CarryCapacity(trps) ==
    SumOver([ty \in DOMAIN trps |-> definitions[ty].carry_capacity * Max(trps[ty], 0)],
            DOMAIN trps)

\* C1: every troop row has 0 <= in_village <= count, whatever the interleaving
\* of dispatches, battle losses, returns, recalls and training completions.
C1_TroopRowsInRange ==
    \A v \in Villages : \A ty \in DOMAIN troops[v] :
        /\ 0 <= troops[v][ty].in_village
        /\ troops[v][ty].in_village <= troops[v][ty].count

\* C2: every army row holds only strictly positive troop counts and a total
\* above zero; no zero or negative entry of a request is ever stored.
C2_ArmyTroopsPositive ==
    \A a \in DOMAIN armies :
        /\ \A ty \in DOMAIN armies[a].troops : armies[a].troops[ty] > 0
        /\ MapSum(armies[a].troops) > 0

\* C3: every village has wood, clay and iron within [0, warehouse_capacity] and
\* crop within [0, granary_capacity].
C3_ResourcesWithinCapacity ==
    \A v \in Villages :
        /\ 0 <= villages[v].wood /\ villages[v].wood <= villages[v].warehouse_capacity
        /\ 0 <= villages[v].clay /\ villages[v].clay <= villages[v].warehouse_capacity
        /\ 0 <= villages[v].iron /\ villages[v].iron <= villages[v].warehouse_capacity
        /\ 0 <= villages[v].crop /\ villages[v].crop <= villages[v].granary_capacity

\* C4: no army is returning and stationed at once, also when a recall is issued
\* while the sweep is handling armies.
C4_NotReturningAndStationed ==
    \A a \in DOMAIN armies : ~(armies[a].is_returning /\ armies[a].is_stationed)

\* C4 witness: the sweep has stationed a support army and is still on it when
\* the recall of that army is written.
C4_RecalledDuringSweep ==
    /\ tasks["sweep"].pc = "sweep"
    /\ tasks["sweep"].wrote /\ ~tasks["sweep"].err
    /\ \E a \in DOMAIN armies :
          /\ tasks["sweep"].cur = a
          /\ armies[a].mission = "Support"
          /\ armies[a].is_returning
          /\ ~armies[a].is_stationed
          /\ armies[a].to_village_id # "none"

\* C5: for every village and troop type, count - in_village is the number of
\* units of that type held by the armies dispatched from the village.
C5_OnMissionAccounted ==
    \A v \in Villages : \A ty \in DOMAIN troops[v] :
        troops[v][ty].count - troops[v][ty].in_village = OnMission(v, ty)

\* C6: every army carries no negative resource and at most the carry capacity
\* of its current troops.
C6_CarriedWithinCapacity ==
    \A a \in DOMAIN armies :
        /\ armies[a].resources.wood >= 0 /\ armies[a].resources.clay >= 0
        /\ armies[a].resources.iron >= 0 /\ armies[a].resources.crop >= 0
        /\ total(armies[a].resources) <= CarryCapacity(armies[a].troops)

\* C7: arrival processing is all-or-nothing: a handler of the sweep that ended
\* in an error has changed nothing in the store.
C7_FailedHandlerWroteNothing ==
    (tasks["sweep"].pc = "sweep" /\ tasks["sweep"].err) => ~tasks["sweep"].wrote

\* C8: arrival processing is idempotent across sweeps: no army is resolved
\* twice, so no army has more than one battle or scout report.
C8_ResolvedAtMostOnce ==
    \A a \in 1..next_army :
        Cardinality({i \in DOMAIN reports : reports[i].army = a}) <= 1

\* C9: dispatches from one village are serialized: in_village is never negative
\* and the armies away from a village never hold more units of a type than the
\* village owns, so two concurrent requests cannot both take the same units.
C9_NoOversell ==
    \A v \in Villages : \A ty \in DOMAIN troops[v] :
        /\ troops[v][ty].in_village >= 0
        /\ OnMission(v, ty) <= troops[v][ty].count

----------------------------------------------------------------------------
(* SpecDeduct: VillageRepository::deduct_resources on its own, called once   *)
(* on a village whose four counters are drawn from DeductAmounts.            *)

DeductAmounts == 0..2

\* `?` on the sqlx result: AppError::DatabaseError(#[from] sqlx::Error)
app_error(r) == IF r.ok THEN "Ok" ELSE "DatabaseError"

\* AppError::into_response: the HTTP status of an error kind
status_code(kind) ==
    CASE kind = "Unauthorized" -> 401
      [] kind = "Forbidden" -> 403
      [] kind = "NotFound" -> 404
      [] kind = "BadRequest" -> 400
      [] kind = "Conflict" -> 409
      [] kind = "ValidationError" -> 422
      [] kind \in {"InternalError", "DatabaseError"} -> 500

InitDeduct ==
    /\ now = 0
    /\ \E w, c, i, cr \in DeductAmounts :
          villages =
             [v \in Villages |->
                 [user_id |-> IF v = "v1" THEN "p1" ELSE "p2", is_capital |-> v = "v1",
                  wood |-> w, clay |-> c, iron |-> i, crop |-> cr,
                  warehouse_capacity |-> 800, granary_capacity |-> 800,
                  loyalty |-> 100]]
    /\ troops = [v \in Villages |-> EmptyMap]
    /\ armies = [a \in {} |-> 0]
    /\ buildings = [v \in Villages |-> [sl \in {} |-> 0]]
    /\ reports = << >>
    /\ troop_queue = << >>
    /\ next_army = 0
    /\ result = [kind |-> "none"]
    /\ trained = 0
    /\ builds = 0
    /\ tasks = [k \in TaskIds |-> Idle]
    /\ faults = 0

\* one call of deduct_resources; result keeps the error kind, the amounts asked
\* and the counters before the call
Deduct(id, wood, clay, iron, crop) ==
    /\ result.kind = "none"
    /\ LET r == deduct_resources(Store, id, wood, clay, iron, crop)
       IN  /\ Install(r.db)
           /\ result' = [kind |-> app_error(r), village |-> id,
                         asked |-> Res(wood, clay, iron, crop),
                         before |-> Res(villages[id].wood, villages[id].clay,
                                        villages[id].iron, villages[id].crop)]
    /\ UNCHANGED << now, trained, builds, tasks, faults >>

NextDeduct ==
    \E id \in Villages, w, c, i, cr \in DeductAmounts : Deduct(id, w, c, i, cr)

SpecDeduct == InitDeduct /\ [][NextDeduct]_vars

\* the four counters of a village
counters(id) == Res(villages[id].wood, villages[id].clay, villages[id].iron,
                    villages[id].crop)

\* all four counters cover the amounts asked
covered(have, asked) ==
    /\ have.wood >= asked.wood /\ have.clay >= asked.clay
    /\ have.iron >= asked.iron /\ have.crop >= asked.crop

\* C10: deduct_resources succeeds only if all four counters cover the request
\* and then deducts all four; otherwise it fails with an error of the
\* BadRequest kind (HTTP 400) and leaves the four counters as they were.
C10_DeductContract ==
    result.kind # "none" =>
        IF covered(result.before, result.asked)
        THEN /\ result.kind = "Ok"
             /\ counters(result.village) =
                   Res(result.before.wood - result.asked.wood,
                       result.before.clay - result.asked.clay,
                       result.before.iron - result.asked.iron,
                       result.before.crop - result.asked.crop)
        ELSE /\ result.kind # "Ok"
             /\ status_code(result.kind) = 400
             /\ counters(result.village) = result.before


----------------------------------------------------------------------------
(* SpecRefresh: the resource engine.  A village row carries                  *)
(* resources_updated_at; v1 has one Woodcutter.  Time passes and the owner   *)
(* reads the village (get_village), which refreshes its resources first.     *)

MaxFieldLevel == 4
MaxClock == 7200
MaxRefreshes == 2

\* ResourceService::calculate_production: the output per hour of the resource
\* fields of a village
calculate_production(db, village_id) ==
    LET rows == db.buildings[village_id]
        per(ty) == SumOver([sl \in DOMAIN rows |->
                               IF rows[sl].building_type = ty
                               THEN production_per_hour(ty, rows[sl].level) ELSE 0],
                           DOMAIN rows)
    IN  Res(per("Woodcutter"), per("ClayPit"), per("IronMine"), per("CropField"))

\* ResourceService::update_village_resources (refresh): production for the
\* seconds since resources_updated_at, each counter clamped to its capacity
update_village_resources(db, village_id, t) ==
    LET v == db.villages[village_id]
        elapsed == t - v.resources_updated_at
        p == calculate_production(db, village_id)
        gain(per_hour) == (per_hour * elapsed) \div 3600
    IN  update_resources(db, village_id,
                         Min(v.wood + gain(p.wood), v.warehouse_capacity),
                         Min(v.clay + gain(p.clay), v.warehouse_capacity),
                         Min(v.iron + gain(p.iron), v.warehouse_capacity),
                         Min(v.crop + gain(p.crop), v.granary_capacity), t)

\* the four counters and the refresh time of a village
resource_row(id) ==
    [wood |-> villages[id].wood, clay |-> villages[id].clay, iron |-> villages[id].iron,
     crop |-> villages[id].crop, resources_updated_at |-> villages[id].resources_updated_at]

\* the result names a refresh of village id made at this instant
refreshed_now(id) ==
    result.kind = "refresh" /\ result.village = id /\ result.at = now

InitRefresh ==
    /\ now = 0
    /\ \E w \in {100, 795}, level \in 1..MaxFieldLevel :
          /\ villages =
               [v \in Villages |->
                   [user_id |-> IF v = "v1" THEN "p1" ELSE "p2", is_capital |-> v = "v1",
                    wood |-> IF v = "v1" THEN w ELSE 0, clay |-> 0, iron |-> 0, crop |-> 0,
                    warehouse_capacity |-> 800, granary_capacity |-> 800,
                    loyalty |-> 100, resources_updated_at |-> 0]]
          /\ buildings =
               [v1 |-> [sl \in {1} |-> [building_type |-> "Woodcutter", level |-> level,
                                        is_upgrading |-> FALSE, upgrade_ends_at |-> 0]],
                v2 |-> [sl \in {} |-> 0]]
    /\ troops = [v \in Villages |-> EmptyMap]
    /\ armies = [a \in {} |-> 0]
    /\ reports = << >>
    /\ troop_queue = << >>
    /\ next_army = 0
    /\ result = [kind |-> "none"]
    /\ trained = 0
    /\ builds = 0
    /\ tasks = [k \in TaskIds |-> Idle]
    /\ faults = 0

\* time passes
Pass(dt) ==
    /\ now + dt <= MaxClock
    /\ now' = now + dt
    /\ UNCHANGED << villages, troops, armies, buildings, reports, troop_queue,
                    next_army, result,
                    trained, builds, tasks, faults >>

\* handlers::village::get_village by the owner: the village is refreshed.
\* result keeps the row before and after the first refresh of this instant and
\* the number of refreshes made at this instant.
Refresh(user_id, village_id) ==
    /\ villages[village_id].user_id = user_id
    /\ refreshed_now(village_id) => result.times < MaxRefreshes
    /\ LET r == update_village_resources(Store, village_id, now)
       IN  /\ Install(r.db)
           /\ result' =
                IF refreshed_now(village_id)
                THEN [result EXCEPT !.times = @ + 1]
                ELSE [kind |-> "refresh", village |-> village_id, at |-> now,
                      before |-> resource_row(village_id),
                      first |-> [wood |-> r.db.villages[village_id].wood,
                                 clay |-> r.db.villages[village_id].clay,
                                 iron |-> r.db.villages[village_id].iron,
                                 crop |-> r.db.villages[village_id].crop,
                                 resources_updated_at |->
                                     r.db.villages[village_id].resources_updated_at],
                      times |-> 1]
    /\ UNCHANGED << now, trained, builds, tasks, faults >>

NextRefresh ==
    \/ \E dt \in {1800, 3600} : Pass(dt)
    \/ \E p \in Players, v \in Villages : Refresh(p, v)

SpecRefresh == InitRefresh /\ [][NextRefresh]_vars

\* C11: refresh is idempotent: a village refreshed again at the same instant
\* has the four counters and resources_updated_at the first refresh left.
C11_RefreshIdempotent ==
    (result.kind = "refresh" /\ result.times >= 2) =>
        resource_row(result.village) = result.first

\* C11 witness: a second refresh at the instant of a refresh that added wood
C11_RefreshedTwice ==
    /\ result.kind = "refresh" /\ result.times >= 2
    /\ result.first.wood > result.before.wood
    /\ result.at > result.before.resources_updated_at

\* C18: scenario S1: a village whose only field is a level-3 Woodcutter, with
\* wood 100 and warehouse capacity 800, shows wood 107 when refreshed 3600 s
\* after resources_updated_at (7 wood per hour).
C18_ScenarioS1 ==
    (/\ result.kind = "refresh" /\ result.times = 1
     /\ result.before.wood = 100
     /\ result.at - result.before.resources_updated_at = 3600
     /\ villages[result.village].warehouse_capacity = 800
     /\ DOMAIN buildings[result.village] = {1}
     /\ buildings[result.village][1].building_type = "Woodcutter"
     /\ buildings[result.village][1].level = 3)
    => (/\ production_per_hour("Woodcutter", 3) = 7
        /\ villages[result.village].wood = 107)


----------------------------------------------------------------------------
(* SpecCost: BuildingType::cost_at_level on its own, asked once for a        *)
(* building type and a level.                                                *)

\* the highest level of a building (BuildingType::max_level)
MaxLevel == 20

InitCost ==
    /\ now = 0
    /\ villages = [v \in {} |-> 0]
    /\ troops = [v \in {} |-> 0]
    /\ armies = [a \in {} |-> 0]
    /\ buildings = [v \in {} |-> 0]
    /\ reports = << >>
    /\ troop_queue = << >>
    /\ next_army = 0
    /\ \E ty \in BuildingTypes, level \in 1..MaxLevel :
          /\ level <= max_level(ty)
          /\ result = [kind |-> "ask", building_type |-> ty, level |-> level]
    /\ trained = 0
    /\ builds = 0
    /\ tasks = [k \in TaskIds |-> Idle]
    /\ faults = 0

\* one call of cost_at_level
CostAtLevel ==
    /\ result.kind = "ask"
    /\ result' = [kind |-> "cost", building_type |-> result.building_type,
                  level |-> result.level,
                  cost |-> cost_at_level(result.building_type, result.level)]
    /\ UNCHANGED << now, villages, troops, armies, buildings, reports, troop_queue,
                    next_army,
                    trained, builds, tasks, faults >>

NextCost == CostAtLevel

SpecCost == InitCost /\ [][NextCost]_vars

\* round(x * 1.28^n)
RoundPow128(x, n) == BigRound(BigPow(Digits(x), 128, n), 2 * n)

\* round(base * 1.28^(level - 1)) componentwise
rounded_cost(ty, level) ==
    LET b == base_cost(ty)
        f(x) == RoundPow128(x, level - 1)
    IN  Cost(f(b.wood), f(b.clay), f(b.iron), f(b.crop), f(b.time_seconds))

\* C17: for every building type and level 1..20, cost_at_level is
\* round(base * 1.28^(level - 1)) in wood, clay, iron, crop and time_seconds.
C17_CostIsRounded ==
    result.kind = "cost" => result.cost = rounded_cost(result.building_type, result.level)


----------------------------------------------------------------------------
(* SpecCalls: send_army with its response.  Every call, accepted or refused, *)
(* leaves in result the caller, the village, the request, the response and   *)
(* the number of army rows before the call.                                  *)

\* the send_army requests of SpecCalls: those of Spec, and requests on the
\* tile of the sender's own village
CallRequests ==
    Requests \cup
    { Request(<<0, 0>>, "Raid", [Infantry |-> 1], NoResources),
      Request(<<0, 0>>, "Attack", [Infantry |-> 1], NoResources),
      Request(<<0, 0>>, "Conquer", [Infantry |-> 1, RoyalAdvisor |-> 1], NoResources),
      Request(<<0, 0>>, "Scout", [Infantry |-> 1], NoResources),
      Request(<<0, 0>>, "Support", [Infantry |-> 1], NoResources),
      Request(<<6, 0>>, "Raid", [Infantry |-> 4], NoResources),
      Request(<<6, 0>>, "Raid", [Infantry |-> 2, Spearman |-> 1], NoResources) }

\* POST /api/villages/:id/armies, with the response kept
CallSendArmy(player_id, from_village_id, request) ==
    /\ next_army < MaxArmies
    /\ LET d == send_army(Store, player_id, from_village_id, request, now)
           r == Run(Store, d.plan, now)
       IN  /\ Install(r.db)
           /\ result' = [kind |-> "send_army", error |-> d.res, player_id |-> player_id,
                         from_village_id |-> from_village_id, request |-> request,
                         army |-> next_army]
    /\ UNCHANGED << now, trained, builds, tasks, faults >>

NextCalls ==
    \/ \E p \in Players, v \in Villages, request \in CallRequests :
          CallSendArmy(p, v, request)
    \/ \E q \in Orders(find_arrived(Store, now)) : ProcessArrived(q)
    \/ Tick

SpecCalls == Init /\ [][NextCalls]_vars

\* the step is a send_army call, whose response is result'
send_army_called == result' # result /\ result'.kind = "send_army"

\* the village on the tile a request names is owned by player_id
targets_own_village(player_id, request) ==
    \E v \in find_by_coordinates(request.to[1], request.to[2]) :
        villages[v].user_id = player_id

\* every positive count of the request is at home in the village, and the
\* counts sum to more than zero
troops_at_home(from_village_id, request) ==
    /\ \A ty \in DOMAIN request.troops :
          request.troops[ty] > 0 =>
              /\ ty \in DOMAIN troops[from_village_id]
              /\ troops[from_village_id][ty].in_village >= request.troops[ty]
    /\ MapSum(request.troops) > 0

\* C19: send_army validates before it mutates: a call answered with Forbidden,
\* NotFound or BadRequest has changed no troop row and created no army row.
C19_RefusedSendChangesNothing ==
    [][(send_army_called /\ result'.error \in {"Forbidden", "NotFound", "BadRequest"})
          => (troops' = troops /\ armies' = armies /\ next_army' = next_army)]_vars

\* C19 witness: a refused call for troops that are at home in the village
C19_RefusedWithTroopsAtHome ==
    /\ result.kind = "send_army"
    /\ result.error \in {"Forbidden", "BadRequest"}
    /\ troops_at_home(result.from_village_id, result.request)

\* C20: a hostile mission (Raid, Attack, Conquer, Scout) on a village of the
\* sender is refused with BadRequest; Support to the sender's own village is
\* accepted.
C20_NoHostileOnOwnVillage ==
    [][(/\ send_army_called
        /\ villages[result'.from_village_id].user_id = result'.player_id
        /\ targets_own_village(result'.player_id, result'.request))
          => /\ result'.request.mission \in {"Raid", "Attack", "Conquer", "Scout"}
                   => result'.error = "BadRequest"
             /\ (/\ result'.request.mission = "Support"
                 /\ troops_at_home(result'.from_village_id, result'.request))
                   => result'.error = "Ok"]_vars

\* C20 witness: a Scout of troops that are at home, on the sender's own
\* village, refused with BadRequest
C20_ScoutOnOwnVillageRefused ==
    /\ result.kind = "send_army"
    /\ result.error = "BadRequest"
    /\ result.request.mission = "Scout"
    /\ villages[result.from_village_id].user_id = result.player_id
    /\ targets_own_village(result.player_id, result.request)
    /\ troops_at_home(result.from_village_id, result.request)


----------------------------------------------------------------------------
(* SpecWar: the battles of the specification's scenarios.  The world starts *)
(* as one of four: the raid of S3, the scouting of S4, a conquest of a      *)
(* lightly held village by four chiefs, and a conquest that is beaten off.  *)

MaxWarArmies == 4

\* a village row of the worlds below
WarVillage(user_id, is_capital, wood) ==
    [user_id |-> user_id, is_capital |-> is_capital,
     wood |-> wood, clay |-> 0, iron |-> 0, crop |-> 0,
     warehouse_capacity |-> 800, granary_capacity |-> 800, loyalty |-> 100]

\* a troops row with every unit at home
AtHome(n) == [count |-> n, in_village |-> n]

Worlds ==
    { [villages |-> [v1 |-> WarVillage("p1", TRUE, 100),
                     v2 |-> WarVillage("p2", FALSE, 500)],
       troops   |-> [v1 |-> [Infantry |-> AtHome(100)],
                     v2 |-> [Spearman |-> AtHome(10)]]],
      [villages |-> [v1 |-> WarVillage("p1", TRUE, 100),
                     v2 |-> WarVillage("p2", FALSE, 300)],
       troops   |-> [v1 |-> [HighlandPony |-> AtHome(5)],
                     v2 |-> [HighlandPony |-> AtHome(20)]]],
      [villages |-> [v1 |-> WarVillage("p1", TRUE, 100),
                     v2 |-> WarVillage("p2", FALSE, 300)],
       troops   |-> [v1 |-> [Infantry |-> AtHome(6), RoyalAdvisor |-> AtHome(4)],
                     v2 |-> [Spearman |-> AtHome(2)]]],
      [villages |-> [v1 |-> WarVillage("p1", TRUE, 100),
                     v2 |-> WarVillage("p2", FALSE, 300)],
       troops   |-> [v1 |-> [Infantry |-> AtHome(3), RoyalAdvisor |-> AtHome(1)],
                     v2 |-> [Spearman |-> AtHome(10)]]] }

WarRequests ==
    { Request(<<6, 0>>, "Raid", [Infantry |-> 100], NoResources),
      Request(<<6, 0>>, "Scout", [HighlandPony |-> 5], NoResources),
      Request(<<6, 0>>, "Conquer", [Infantry |-> 3, RoyalAdvisor |-> 1], NoResources),
      Request(<<6, 0>>, "Conquer", [Infantry |-> 1, RoyalAdvisor |-> 1],
              Res(10, 0, 0, 0)),
      Request(<<6, 0>>, "Conquer", [RoyalAdvisor |-> 2], NoResources),
      Request(<<6, 0>>, "Conquer", [Infantry |-> 2], NoResources) }

InitWar ==
    /\ now = 0
    /\ \E w \in Worlds : villages = w.villages /\ troops = w.troops
    /\ armies = [a \in {} |-> 0]
    /\ buildings = [v \in Villages |-> [sl \in {} |-> 0]]
    /\ reports = << >>
    /\ troop_queue = << >>
    /\ next_army = 0
    /\ result = [kind |-> "none"]
    /\ trained = 0
    /\ builds = 0
    /\ tasks = [k \in TaskIds |-> Idle]
    /\ faults = 0

\* POST /api/villages/:village_id/armies
SendArmyWar(player_id, from_village_id, request) ==
    /\ next_army < MaxWarArmies
    /\ LET d == send_army(Store, player_id, from_village_id, request, now)
           r == Run(Store, d.plan, now)
       IN  Install(r.db)
    /\ UNCHANGED << now, result, trained, builds, tasks, faults >>

NextWar ==
    \/ \E p \in Players, v \in Villages, request \in WarRequests :
          SendArmyWar(p, v, request)
    \/ \E q \in Orders(find_arrived(Store, now)) : ProcessArrived(q)
    \/ Tick

SpecWar == InitWar /\ [][NextWar]_vars


\* the sweep finds army a, and no other, arrived at village_id on mission
arrives_alone(a, mission, village_id) ==
    /\ a \in DOMAIN armies
    /\ find_arrived(Store, now) = {a}
    /\ ~armies[a].is_returning
    /\ armies[a].mission = mission
    /\ armies[a].to = VillageXY[village_id]

\* the four resource counters of a village
stock(vil) == Res(vil.wood, vil.clay, vil.iron, vil.crop)

\* C12: scenario S3.  100 Infantry raid a village held by 10 Spearmen with 500
\* wood and nothing else: the attacker wins and loses 8 (92 survive), all 10
\* Spearmen die, 250 wood are taken from the village, the report names the
\* attacker as winner and the army turns home carrying the 250 wood.
C12_ScenarioS3 ==
    [][\A a \in 1..MaxWarArmies :
          ( /\ arrives_alone(a, "Raid", "v2")
            /\ armies[a].troops = [Infantry |-> 100]
            /\ garrison(Store, "v2") = [Spearman |-> 10]
            /\ stock(villages["v2"]) = Res(500, 0, 0, 0)
            /\ ProcessArrived(<< a >>) )
          => /\ Len(reports') = Len(reports) + 1
             /\ reports'[Len(reports')].winner = "attacker"
             /\ reports'[Len(reports')].attacker_losses = [Infantry |-> 8]
             /\ reports'[Len(reports')].defender_losses = [Spearman |-> 10]
             /\ reports'[Len(reports')].resources_stolen = Res(250, 0, 0, 0)
             /\ troops'["v2"]["Spearman"].in_village = 0
             /\ stock(villages'["v2"]) = Res(250, 0, 0, 0)
             /\ a \in DOMAIN armies'
             /\ armies'[a].is_returning
             /\ armies'[a].troops = [Infantry |-> 92]
             /\ armies'[a].resources = Res(250, 0, 0, 0)]_vars

\* C12 witness: the raid of S3 has been fought and the 92 survivors are on
\* their way home
C12_RaidersReturning ==
    \E a \in DOMAIN armies :
        /\ armies[a].mission = "Raid"
        /\ armies[a].is_returning
        /\ armies[a].troops = [Infantry |-> 92]
        /\ \E i \in DOMAIN reports :
              /\ reports[i].kind = "battle"
              /\ reports[i].army = a
              /\ reports[i].attacker_troops = [Infantry |-> 100]
              /\ reports[i].defender_troops = [Spearman |-> 10]


\* C16: scenario S4.  5 scouts of speed 16 reach a village holding 20 scouts of
\* speed 16: the scouting fails, all 5 attackers are lost, the village loses
\* exactly 2, the scout report carries neither the target's resources nor its
\* garrison, and the army row is deleted.
C16_ScenarioS4 ==
    [][\A a \in 1..MaxWarArmies :
          ( /\ arrives_alone(a, "Scout", "v2")
            /\ armies[a].troops = [HighlandPony |-> 5]
            /\ garrison(Store, "v2") = [HighlandPony |-> 20]
            /\ ProcessArrived(<< a >>) )
          => /\ Len(reports') = Len(reports) + 1
             /\ reports'[Len(reports')].kind = "scout"
             /\ ~reports'[Len(reports')].success
             /\ reports'[Len(reports')].attacker_losses = 5
             /\ reports'[Len(reports')].defender_losses = 2
             /\ reports'[Len(reports')].scouted_resources = None
             /\ reports'[Len(reports')].scouted_troops = None
             /\ troops'["v2"]["HighlandPony"].in_village = 18
             /\ troops'["v2"]["HighlandPony"].count = 18
             /\ a \notin DOMAIN armies']_vars

\* C16 witness: the scouting of S4 has been resolved, the village holds 18
\* scouts and stores resources the report does not show
C16_ScoutsLost ==
    /\ \E i \in DOMAIN reports :
          /\ reports[i].kind = "scout"
          /\ reports[i].attacker_scouts = 5
          /\ reports[i].defender_scouts = 20
    /\ armies = [a \in {} |-> 0]
    /\ troops["v2"]["HighlandPony"].in_village = 18
    /\ stock(villages["v2"]) # NoResources


\* the loyalty reduction a battle report shows: chief count * loyalty_reduction
\* over the chiefs that survived, if the attacker won
reduction_shown(r) ==
    IF r.winner = "attacker"
    THEN SumOver([ty \in DOMAIN r.attacker_troops |->
                     IF is_chief(ty)
                     THEN definitions[ty].loyalty_reduction
                          * Max(r.attacker_troops[ty] - GetOr0(r.attacker_losses, ty), 0)
                     ELSE 0],
                 DOMAIN r.attacker_troops)
    ELSE 0

\* the sweep resolves the battle of conquer army a, arrived alone at a village of
\* another player that is not a capital
conquer_battle(a, village_id) ==
    /\ arrives_alone(a, "Conquer", village_id)
    /\ villages[village_id].user_id # armies[a].player_id
    /\ ~villages[village_id].is_capital
    /\ ProcessArrived(<< a >>)

\* C13: a Conquer battle whose surviving chiefs reduce loyalty by less than the
\* target's loyalty lowers the loyalty by exactly that sum and leaves owner and
\* is_capital alone; when the attacker does not win or no chief survives the
\* sum is 0 and loyalty and owner are unchanged.
C13_LoyaltyReducedBySurvivingChiefs ==
    [][\A a \in 1..MaxWarArmies, v \in Villages :
          ( /\ conquer_battle(a, v)
            /\ Len(reports') = Len(reports) + 1
            /\ reduction_shown(reports'[Len(reports')]) < villages[v].loyalty )
          => /\ villages'[v].loyalty
                  = villages[v].loyalty - reduction_shown(reports'[Len(reports')])
             /\ villages'[v].user_id = villages[v].user_id
             /\ villages'[v].is_capital = villages[v].is_capital]_vars

\* C13 witness: one conquer battle was lost and one was won with a surviving
\* chief, and the village, still its owner's, has lost some but not all loyalty
C13_LoyaltyLowered ==
    /\ villages["v2"].user_id = "p2"
    /\ villages["v2"].loyalty \in 1..99
    /\ \E i, j \in DOMAIN reports :
          /\ reports[i].kind = "battle" /\ reports[i].mission = "Conquer"
          /\ reports[i].winner = "defender"
          /\ reports[j].kind = "battle" /\ reports[j].mission = "Conquer"
          /\ reduction_shown(reports[j]) > 0


\* the conquer battles on village_id reported so far that took loyalty from it
battles_won(village_id) ==
    {i \in DOMAIN reports : /\ reports[i].kind = "battle"
                            /\ reports[i].mission = "Conquer"
                            /\ reports[i].defender_village_id = village_id
                            /\ reduction_shown(reports[i]) > 0}

\* C14: a winning Conquer arrival that brings the target's loyalty to 0 hands
\* the village to the attacker in the same processing (owner := attacker,
\* is_capital := false, loyalty := 25); from loyalty 100 and with reductions of
\* 25 the village changes hands on the fourth battle and not before; and
\* between two processings no village has loyalty 0.
C14_TransferWhenLoyaltyReachesZero ==
    /\ [](\A v \in Villages : villages[v].loyalty # 0)
    /\ []((\A i \in battles_won("v2") : reduction_shown(reports[i]) = 25)
             => (villages["v2"].user_id = "p1" <=> Cardinality(battles_won("v2")) >= 4))
    /\ [][\A a \in 1..MaxWarArmies, v \in Villages :
             ( /\ conquer_battle(a, v)
               /\ Len(reports') = Len(reports) + 1
               /\ reduction_shown(reports'[Len(reports')]) > 0
               /\ reduction_shown(reports'[Len(reports')]) >= villages[v].loyalty )
             => /\ villages'[v].user_id = armies[a].player_id
                /\ ~villages'[v].is_capital
                /\ villages'[v].loyalty = 25]_vars

\* C14 witness: four battles with one surviving chief each have been fought
\* and the village is the attacker's, not a capital, with loyalty 25
C14_ConqueredOnFourthBattle ==
    /\ Cardinality(battles_won("v2")) = 4
    /\ \A i \in battles_won("v2") : reduction_shown(reports[i]) = 25
    /\ villages["v2"].user_id = "p1"
    /\ ~villages["v2"].is_capital
    /\ villages["v2"].loyalty = 25


\* C15: a Conquer arrival never loots.  Whatever the outcome, the processing
\* leaves the four resource counters of the target as they were, a battle
\* report it writes shows no stolen resources, and the army, if it turns home,
\* carries nothing.
C15_ConquerNeverLoots ==
    [][\A a \in 1..MaxWarArmies, v \in Villages :
          ( /\ arrives_alone(a, "Conquer", v)
            /\ ProcessArrived(<< a >>) )
          => /\ stock(villages'[v]) = stock(villages[v])
             /\ Len(reports') > Len(reports)
                  => reports'[Len(reports')].resources_stolen = NoResources
             /\ a \in DOMAIN armies'
                  => /\ armies'[a].is_returning
                     /\ armies'[a].resources = NoResources]_vars

\* C15 witness: a conquer army that set out over a stocked village has won its
\* battle and is on its way home; no resources have left the village
C15_ConquerorsReturning ==
    \E a \in DOMAIN armies :
        /\ armies[a].mission = "Conquer"
        /\ armies[a].is_returning
        /\ \E i \in DOMAIN reports :
              /\ reports[i].army = a
              /\ reports[i].winner = "attacker"
        /\ villages["v2"].wood > 0


----------------------------------------------------------------------------
(* SpecSettle: POST /api/villages, one repository call per step, two        *)
(* requests in flight, next to the transfer of a conquered village.         *)

MaxVillages == 3

\* the ids of the rows inserted into villages, in order
SettleIds == << "v1", "v2", "v3" >>

\* VillageRepository::count_by_user_id
count_by_user_id(db, user_id) ==
    Cardinality({v \in DOMAIN db.villages : db.villages[v].user_id = user_id})

\* VillageRepository::is_coordinate_available
is_coordinate_available(db, x, y) ==
    ~\E v \in DOMAIN db.villages : db.villages[v].x = x /\ db.villages[v].y = y

\* VillageRepository::create: INSERT INTO villages; the unique index on (x, y)
\* refuses a second row on the same tile
village_create(db, input) ==
    IF ~is_coordinate_available(db, input.x, input.y) THEN StmtErr(db)
    ELSE LET id == SettleIds[Cardinality(DOMAIN db.villages) + 1]
             row == [user_id |-> input.user_id, x |-> input.x, y |-> input.y,
                     is_capital |-> input.is_capital, loyalty |-> 100]
         IN  StmtOk([db EXCEPT !.villages =
                        [v \in DOMAIN db.villages \cup {id} |->
                            IF v = id THEN row ELSE db.villages[v]]])

InitSettle ==
    /\ now = 0
    /\ villages = [v \in {} |-> 0]
    /\ troops = [v \in {} |-> 0]
    /\ armies = [a \in {} |-> 0]
    /\ buildings = [v \in {} |-> 0]
    /\ reports = << >>
    /\ troop_queue = << >>
    /\ next_army = 0
    /\ result = [kind |-> "none"]
    /\ trained = 0
    /\ builds = 0
    /\ tasks = [k \in {"c1", "c2"} |-> Idle]
    /\ faults = 0

\* a request POST /api/villages arrives
CreateVillageCall(k, user_id, xy) ==
    /\ tasks[k].pc = "idle"
    /\ Cardinality(DOMAIN villages)
         + Cardinality({j \in DOMAIN tasks : tasks[j].pc # "idle"}) < MaxVillages
    /\ tasks' = [tasks EXCEPT ![k] = [pc |-> "check", user_id |-> user_id,
                                      x |-> xy[1], y |-> xy[2], village_count |-> 0]]
    /\ UNCHANGED << now, villages, troops, armies, buildings, reports, troop_queue,
                    next_army,
                    result, trained, builds, faults >>

\* create_village: `if !is_coordinate_available(..) { return Err(Conflict) }`
CreateVillageCheck(k) ==
    /\ tasks[k].pc = "check"
    /\ IF is_coordinate_available(Store, tasks[k].x, tasks[k].y)
       THEN /\ tasks' = [tasks EXCEPT ![k].pc = "count"]
            /\ UNCHANGED result
       ELSE /\ tasks' = [tasks EXCEPT ![k] = Idle]
            /\ result' = [kind |-> "create_village", error |-> "Conflict"]
    /\ UNCHANGED << now, villages, troops, armies, buildings, reports, troop_queue,
                    next_army,
                    trained, builds, faults >>

\* create_village: `let village_count = count_by_user_id(..)`
CreateVillageCount(k) ==
    /\ tasks[k].pc = "count"
    /\ tasks' = [tasks EXCEPT ![k].pc = "insert",
                              ![k].village_count =
                                  count_by_user_id(Store, tasks[k].user_id)]
    /\ UNCHANGED << now, villages, troops, armies, buildings, reports, troop_queue,
                    next_army,
                    result, trained, builds, faults >>

\* create_village: the INSERT, with is_capital = (village_count == 0)
CreateVillageInsert(k) ==
    /\ tasks[k].pc = "insert"
    /\ LET r == village_create(Store, [user_id |-> tasks[k].user_id,
                                       x |-> tasks[k].x, y |-> tasks[k].y,
                                       is_capital |-> tasks[k].village_count = 0])
       IN  /\ villages' = r.db.villages
           /\ result' = [kind |-> "create_village",
                         error |-> IF r.ok THEN "Ok" ELSE "DatabaseError"]
    /\ tasks' = [tasks EXCEPT ![k] = Idle]
    /\ UNCHANGED << now, troops, armies, buildings, reports, troop_queue,
                    next_army,
                    trained, builds, faults >>

\* the end of a conquest (handle_conquer_arrival): a village that is neither
\* the attacker's nor a capital changes hands
Conquered(id, new_owner_id) ==
    /\ id \in DOMAIN villages
    /\ villages[id].user_id # new_owner_id
    /\ ~villages[id].is_capital
    /\ count_by_user_id(Store, new_owner_id) > 0
    /\ villages' = update_loyalty(transfer_ownership(Store, id, new_owner_id).db,
                                  id, 25).db.villages
    /\ UNCHANGED << now, troops, armies, buildings, reports, troop_queue,
                    next_army, result,
                    trained, builds, tasks, faults >>

NextSettle ==
    \/ \E k \in {"c1", "c2"}, p \in Players, xy \in Tiles : CreateVillageCall(k, p, xy)
    \/ \E k \in {"c1", "c2"} : CreateVillageCheck(k)
    \/ \E k \in {"c1", "c2"} : CreateVillageCount(k)
    \/ \E k \in {"c1", "c2"} : CreateVillageInsert(k)
    \/ \E id \in {"v1", "v2", "v3"}, p \in Players : Conquered(id, p)

SpecSettle == InitSettle /\ [][NextSettle]_vars

\* the capitals of a user
capitals(user_id) ==
    {v \in DOMAIN villages : villages[v].user_id = user_id /\ villages[v].is_capital}

----------------------------------------------------------------------------
(* SpecBuild: the building handlers next to the completion of upgrades,     *)
(* which may be invoked for any building at any time.                       *)

\* BuildingService::complete_upgrade invoked for the building in slot
CompleteCall(village_id, slot) ==
    /\ slot \in DOMAIN buildings[village_id]
    /\ Install(Run(Store, service_complete_upgrade(Store, village_id, slot), now).db)
    /\ result' = [kind |-> "complete", village |-> village_id, slot |-> slot]
    /\ UNCHANGED << now, trained, builds, tasks, faults >>

\* v1 holds a Warehouse of level 1 or 2, at rest or under upgrade until 400;
\* v2 holds no building and can pay for one
InitBuild ==
    /\ now = 0
    /\ \E level \in 1..2, upgrading \in BOOLEAN :
          /\ villages =
                [v1 |-> [user_id |-> "p1", is_capital |-> TRUE,
                         wood |-> 1000, clay |-> 400, iron |-> 400, crop |-> 400,
                         warehouse_capacity |-> 800 + storage_capacity("Warehouse", level),
                         granary_capacity |-> 800, loyalty |-> 100],
                 v2 |-> [user_id |-> "p2", is_capital |-> TRUE,
                         wood |-> 400, clay |-> 400, iron |-> 400, crop |-> 400,
                         warehouse_capacity |-> 800, granary_capacity |-> 800,
                         loyalty |-> 100]]
          /\ buildings =
                [v1 |-> [sl \in {1} |->
                           [building_type |-> "Warehouse", level |-> level,
                            is_upgrading |-> upgrading,
                            upgrade_ends_at |-> IF upgrading THEN 400 ELSE 0]],
                 v2 |-> [sl \in {} |-> 0]]
    /\ troops = [v \in Villages |-> [t \in {} |-> 0]]
    /\ armies = [a \in {} |-> 0]
    /\ reports = << >>
    /\ troop_queue = << >>
    /\ next_army = 0
    /\ result = [kind |-> "none"]
    /\ trained = 0
    /\ builds = 0
    /\ tasks = [k \in TaskIds |-> Idle]
    /\ faults = 0

NextBuild ==
    \/ \E p \in Players, v \in Villages, sl \in Slots, ty \in BuildTypes : Build(p, v, sl, ty)
    \/ \E p \in Players, v \in Villages, sl \in Slots : Upgrade(p, v, sl)
    \/ \E p \in Players, v \in Villages, sl \in Slots : Demolish(p, v, sl)
    \/ \E v \in Villages, sl \in Slots : CompleteCall(v, sl)
    \/ CompleteUpgrades
    \/ Tick

SpecBuild == InitBuild /\ [][NextBuild]_vars

\* the building in slot is upgrading and its upgrade is due
due(village_id, slot) ==
    /\ buildings[village_id][slot].is_upgrading
    /\ buildings[village_id][slot].upgrade_ends_at <= now

\* C22: completing an upgrade is replay-safe.  A completion invoked for a
\* building that is not upgrading, or whose upgrade is not yet due, changes
\* neither its level and flag nor the storage of the village; a completion of
\* a due upgrade raises the level by exactly one and clears the flag.
C22_CompleteIsReplaySafe ==
    [][\A v \in Villages, sl \in Slots :
          CompleteCall(v, sl)
          => IF due(v, sl)
             THEN /\ buildings'[v][sl].level = buildings[v][sl].level + 1
                  /\ ~buildings'[v][sl].is_upgrading
             ELSE /\ buildings' = buildings
                  /\ villages' = villages]_vars

\* C22 witness: a completion was invoked for a building that had been
\* upgraded and completed before
C22_CompletedReplayed ==
    /\ result.kind = "complete"
    /\ result.slot \in DOMAIN buildings[result.village]
    /\ ~buildings[result.village][result.slot].is_upgrading
    /\ buildings[result.village][result.slot].level >= 2


----------------------------------------------------------------------------
(* SpecLive: dispatches, recalls and the movement sweep, with the clock and *)
(* the sweep scheduled fairly: the tick loop never stops, and time passes.  *)

NextLive ==
    \/ \E p \in Players, v \in Villages, request \in Requests : SendArmy(p, v, request)
    \/ \E q \in Orders(find_arrived(Store, now)) : ProcessArrived(q)
    \/ \E p \in Players, a \in 1..MaxArmies : RecallSupport(p, a)
    \/ Tick

\* one run of the movement sweep
Sweep == \E q \in Orders(find_arrived(Store, now)) : ProcessArrived(q)

\* the sweep has work to do and doing it changes the store: ENABLED <<Sweep>>_vars
SweepEnabled ==
    \E q \in Orders(find_arrived(Store, now)) :
        q # << >> /\ process_arrived_armies(Store, snapshot(Store, q), now) # Store

\* WF_vars(Sweep), with ENABLED <<Sweep>>_vars written as the state predicate
\* SweepEnabled
SweepFair == []<>(~SweepEnabled) \/ []<><<Sweep>>_vars

SpecLive ==
    /\ Init
    /\ [][NextLive]_vars
    /\ WF_vars(Tick)
    /\ SweepFair

\* army a is on its way out
outbound(a) ==
    a \in DOMAIN armies /\ ~armies[a].is_returning /\ ~armies[a].is_stationed

\* army a is on its way home
returning(a) == a \in DOMAIN armies /\ armies[a].is_returning

----------------------------------------------------------------------------
(* SpecSiege: raids and attacks on a village whose garrison is reinforced   *)
(* by stationed support of the same troop type.                             *)

MaxSiegeArmies == 3

SiegeRequests ==
    { Request(<<6, 0>>, "Support", [Infantry |-> 1], NoResources),
      Request(<<6, 0>>, "Raid", [Infantry |-> 2], NoResources),
      Request(<<6, 0>>, "Raid", [Infantry |-> 3], NoResources),
      Request(<<6, 0>>, "Attack", [Infantry |-> 3], NoResources),
      Request(<<6, 0>>, "Attack", [Infantry |-> 4], NoResources),
      Request(<<6, 0>>, "Raid", [Infantry |-> 6], NoResources),
      Request(<<6, 0>>, "Attack", [Infantry |-> 6], NoResources) }

\* v1 holds 7 Infantry; v2 holds 2 Infantry, or nobody, over a small or a
\* large stock
InitSiege ==
    /\ now = 0
    /\ \E home \in {0, 2}, stock2 \in {Res(301, 90, 7, 300), Res(61, 0, 40, 3)} :
          /\ villages =
                [v1 |-> [user_id |-> "p1", is_capital |-> TRUE,
                         wood |-> 100, clay |-> 100, iron |-> 100, crop |-> 100,
                         warehouse_capacity |-> 800, granary_capacity |-> 800,
                         loyalty |-> 100],
                 v2 |-> [user_id |-> "p2", is_capital |-> TRUE,
                         wood |-> stock2.wood, clay |-> stock2.clay,
                         iron |-> stock2.iron, crop |-> stock2.crop,
                         warehouse_capacity |-> 800, granary_capacity |-> 800,
                         loyalty |-> 100]]
          /\ troops = [v1 |-> [Infantry |-> [count |-> 7, in_village |-> 7]],
                       v2 |-> [Infantry |-> [count |-> home, in_village |-> home]]]
    /\ armies = [a \in {} |-> 0]
    /\ buildings = [v \in Villages |-> [sl \in {} |-> 0]]
    /\ reports = << >>
    /\ troop_queue = << >>
    /\ next_army = 0
    /\ result = [kind |-> "none"]
    /\ trained = 0
    /\ builds = 0
    /\ tasks = [k \in TaskIds |-> Idle]
    /\ faults = 0

\* POST /api/villages/:village_id/armies
SendArmySiege(player_id, from_village_id, request) ==
    /\ next_army < MaxSiegeArmies
    /\ LET d == send_army(Store, player_id, from_village_id, request, now)
           r == Run(Store, d.plan, now)
       IN  Install(r.db)
    /\ UNCHANGED << now, result, trained, builds, tasks, faults >>

NextSiege ==
    \/ \E p \in Players, v \in Villages, request \in SiegeRequests :
          SendArmySiege(p, v, request)
    \/ \E q \in Orders(find_arrived(Store, now)) : ProcessArrived(q)
    \/ Tick

SpecSiege == InitSiege /\ [][NextSiege]_vars

\* the sweep resolves the battle of army a, arrived alone at village_id on a
\* Raid or an Attack
hostile_battle(a, village_id) ==
    /\ a \in DOMAIN armies
    /\ find_arrived(Store, now) = {a}
    /\ ~armies[a].is_returning
    /\ armies[a].mission \in {"Raid", "Attack"}
    /\ armies[a].to = VillageXY[village_id]
    /\ ProcessArrived(<< a >>)
    /\ Len(reports') = Len(reports) + 1

\* the armies stationed at village_id
stationed_at(village_id) ==
    {s \in DOMAIN armies : armies[s].is_stationed /\ armies[s].to_village_id = village_id}

\* the units of type ty the step took from the garrison of village_id
garrison_removed(village_id, ty) ==
    IF ty \in DOMAIN troops[village_id]
    THEN troops[village_id][ty].in_village - troops'[village_id][ty].in_village
    ELSE 0

\* the units of type ty the step took from the stationed army s
stationed_removed(s, ty) ==
    GetOr0(armies[s].troops, ty)
    - (IF s \in DOMAIN armies' THEN GetOr0(armies'[s].troops, ty) ELSE 0)

\* C24: in the resolution of a Raid or an Attack, for each defender troop type
\* the units removed from the garrison plus the units removed from the
\* stationed armies equal the loss of that type in the battle report, and no
\* holder loses more than it had.
C24_LossesAddUp ==
    [][\A a \in 1..MaxSiegeArmies, v \in Villages :
          hostile_battle(a, v)
          => \A ty \in TroopTypes :
                /\ garrison_removed(v, ty)
                     + SumOver([s \in stationed_at(v) |-> stationed_removed(s, ty)],
                               stationed_at(v))
                     = GetOr0(reports'[Len(reports')].defender_losses, ty)
                /\ garrison_removed(v, ty) <= GetOr0(garrison(Store, v), ty)
                /\ \A s \in stationed_at(v) :
                      stationed_removed(s, ty) <= GetOr0(armies[s].troops, ty)]_vars


\* what the attackers of battle report r can carry home
carry_of_survivors(r) ==
    SumOver([ty \in DOMAIN r.attacker_troops |->
                definitions[ty].carry_capacity
                * Max(r.attacker_troops[ty] - GetOr0(r.attacker_losses, ty), 0)],
            DOMAIN r.attacker_troops)

\* amount x of a resource, of which the mission may take a share, allows taking n
within_share(mission, n, x) ==
    IF mission = "Raid" THEN 2 * n <= x ELSE n <= x

\* C25: a Raid or an Attack steals only when the attacker wins; each amount
\* stolen is within the available share of the resource (half for a Raid, all
\* for an Attack), the total is within the carry capacity of the survivors,
\* the village's counters drop by exactly the amounts stolen and not below 0,
\* and the returning army carries exactly those amounts.
C25_LootIsBounded ==
    [][\A a \in 1..MaxSiegeArmies, v \in Villages :
          hostile_battle(a, v)
          => LET r == reports'[Len(reports')]
                 stolen == r.resources_stolen
             IN  /\ r.winner # "attacker" => stolen = NoResources
                 /\ \A k \in {"wood", "clay", "iron", "crop"} :
                       /\ stolen[k] >= 0
                       /\ within_share(r.mission, stolen[k], villages[v][k])
                       /\ villages'[v][k] = villages[v][k] - stolen[k]
                       /\ villages'[v][k] >= 0
                 /\ total(stolen) <= carry_of_survivors(r)
                 /\ a \in DOMAIN armies' => armies'[a].resources = stolen]_vars

\* C25 witness: the winners of a battle took less than the share they could
\* have had, because they could not carry more, and are on their way home
C25_LootScaledToCapacity ==
    \E a \in DOMAIN armies, i \in DOMAIN reports :
        /\ reports[i].army = a
        /\ reports[i].winner = "attacker"
        /\ armies[a].is_returning
        /\ armies[a].resources = reports[i].resources_stolen
        /\ total(reports[i].resources_stolen) > 0
        /\ total(stock(villages["v2"])) > total(reports[i].resources_stolen)
        /\ total(reports[i].resources_stolen) > carry_of_survivors(reports[i]) - 4


\* attack power minus defense power of battle report r, times the (positive)
\* denominator of the defense power
power_margin(r) ==
    LET ic == calculate_attack_by_type(r.attacker_troops)
        dp == calculate_defense_power(r.defender_troops, ic[1], ic[2])
    IN  calculate_attack_power(r.attacker_troops) * dp.d - dp.n

\* the defense power of battle report r is zero
undefended(r) ==
    LET ic == calculate_attack_by_type(r.attacker_troops)
    IN  calculate_defense_power(r.defender_troops, ic[1], ic[2]).n = 0

\* C26: the attacker wins exactly when the total attack exceeds the defense
\* power or the defense power is 0.  With equal positive powers the defender
\* branch applies: an Attack loses every attacker, a Raid loses
\* floor(0.66 * count) of each type, the defenders lose everything
\* (ratio^1.5 = 1), nothing is stolen and the winner tag is not "attacker".
C26_CombatCaseSplit ==
    [][\A a \in 1..MaxSiegeArmies, v \in Villages :
          hostile_battle(a, v)
          => LET r == reports'[Len(reports')]
             IN  /\ r.winner = "attacker" <=> (power_margin(r) > 0 \/ undefended(r))
                 /\ (power_margin(r) = 0 /\ ~undefended(r))
                    => /\ r.winner # "attacker"
                       /\ r.resources_stolen = NoResources
                       /\ stock(villages'[v]) = stock(villages[v])
                       /\ \A ty \in DOMAIN r.attacker_troops :
                             LET n == r.attacker_troops[ty]
                                 l == GetOr0(r.attacker_losses, ty)
                             IN  IF r.mission = "Attack" THEN l = n
                                 ELSE 100 * l <= 66 * n /\ 66 * n < 100 * (l + 1)
                       /\ \A ty \in DOMAIN r.defender_troops :
                             GetOr0(r.defender_losses, ty) = r.defender_troops[ty]]_vars

\* C26 witness: a Raid met a defense equal to its attack; the report is a draw
\* and the survivors of the Raid walk home with nothing
C26_TiedRaid ==
    \E a \in DOMAIN armies, i \in DOMAIN reports :
        /\ reports[i].army = a
        /\ reports[i].mission = "Raid"
        /\ power_margin(reports[i]) = 0
        /\ ~undefended(reports[i])
        /\ reports[i].winner = "draw"
        /\ armies[a].is_returning
        /\ armies[a].resources = NoResources


----------------------------------------------------------------------------
(* Recall calls with their responses *)

\* POST /api/armies/:id/recall, with the response kept
CallRecall(player_id, army_id) ==
    /\ LET d == recall_support(Store, army_id, player_id)
           r == Run(Store, d.plan, now)
       IN  /\ Install(r.db)
           /\ result' = [kind |-> "recall_support",
                         error |-> IF r.ok THEN d.res ELSE "DatabaseError",
                         player_id |-> player_id, army |-> army_id]
    /\ UNCHANGED << now, trained, builds, tasks, faults >>

NextRecall ==
    \/ \E p \in Players, v \in Villages, request \in Requests : SendArmy(p, v, request)
    \/ \E q \in Orders(find_arrived(Store, now)) : ProcessArrived(q)
    \/ \E p \in Players, a \in 1..MaxArmies : CallRecall(p, a)
    \/ Tick

SpecRecall == Init /\ [][NextRecall]_vars

\* the army row a successful recall of army a at time t leaves
recalled(a, t) ==
    LET army == armies[a]
        home == VillageXY[army.from_village_id]
    IN  [army EXCEPT !.is_stationed = FALSE,
                     !.is_returning = TRUE,
                     !.arrives_at =
                         t + calculate_travel_time(
                                 calculate_distance2(army.to[1], army.to[2],
                                                     home[1], home[2]),
                                 army.troops)]

\* C27: recall_support succeeds only for a stationed army of the caller; it
\* then clears is_stationed, sets is_returning and arrives_at = now + the
\* travel time home of the army's troops and changes nothing else of the
\* army; otherwise it fails with NotFound, Forbidden or BadRequest (not
\* stationed) and the army is as before.
C27_RecallSupportContract ==
    [][\A p \in Players, a \in 1..MaxArmies :
          CallRecall(p, a)
          => /\ villages' = villages /\ troops' = troops /\ reports' = reports
             /\ DOMAIN armies' = DOMAIN armies
             /\ \A b \in DOMAIN armies \ {a} : armies'[b] = armies[b]
             /\ result'.error = "Ok"
                  <=> (a \in DOMAIN armies /\ armies[a].player_id = p
                       /\ armies[a].is_stationed)
             /\ result'.error = "Ok" => armies'[a] = recalled(a, now)
             /\ result'.error # "Ok"
                  => /\ armies' = armies
                     /\ result'.error =
                          (IF a \notin DOMAIN armies THEN "NotFound"
                           ELSE IF armies[a].player_id # p THEN "Forbidden"
                           ELSE "BadRequest")]_vars

\* C27 witness: the owner's recall of a stationed army with cargo succeeded and
\* the army is on its way home with the troops and the cargo it had
C27_SupportRecalled ==
    /\ result.kind = "recall_support"
    /\ result.error = "Ok"
    /\ result.army \in DOMAIN armies
    /\ LET army == armies[result.army]
       IN  /\ army.player_id = result.player_id
           /\ army.is_returning /\ ~army.is_stationed
           /\ army.mission = "Support"
           /\ army.arrives_at > now
           /\ MapSum(army.troops) > 0
           /\ total(army.resources) > 0


----------------------------------------------------------------------------
(* Scouting *)

MaxScoutArmies == 3

ScoutRequests ==
    { Request(<<6, 0>>, "Scout", [HighlandPony |-> 2], NoResources),
      Request(<<6, 0>>, "Scout", [HighlandPony |-> 8], NoResources),
      Request(<<6, 0>>, "Scout", [Infantry |-> 1], NoResources) }

\* v1 holds 10 Highland Ponies and 2 Infantry; v2 holds nobody, 3 or 12
\* Highland Ponies or 2 Spearmen, over an empty or a filled store
InitScout ==
    /\ now = 0
    /\ \E held \in {EmptyMap, [HighlandPony |-> AtHome(3)],
                    [HighlandPony |-> AtHome(12)], [Spearman |-> AtHome(2)]},
          stock2 \in {NoResources, Res(300, 90, 7, 300)} :
          /\ villages =
                [v1 |-> WarVillage("p1", TRUE, 100),
                 v2 |-> [WarVillage("p2", TRUE, stock2.wood) EXCEPT
                            !.clay = stock2.clay, !.iron = stock2.iron,
                            !.crop = stock2.crop]]
          /\ troops = [v1 |-> [HighlandPony |-> AtHome(10), Infantry |-> AtHome(2)],
                       v2 |-> held]
    /\ armies = [a \in {} |-> 0]
    /\ buildings = [v \in Villages |-> [sl \in {} |-> 0]]
    /\ reports = << >>
    /\ troop_queue = << >>
    /\ next_army = 0
    /\ result = [kind |-> "none"]
    /\ trained = 0
    /\ builds = 0
    /\ tasks = [k \in TaskIds |-> Idle]
    /\ faults = 0

\* POST /api/villages/:village_id/armies
SendArmyScout(player_id, from_village_id, request) ==
    /\ next_army < MaxScoutArmies
    /\ LET d == send_army(Store, player_id, from_village_id, request, now)
           r == Run(Store, d.plan, now)
       IN  Install(r.db)
    /\ UNCHANGED << now, result, trained, builds, tasks, faults >>

NextScout ==
    \/ \E p \in Players, v \in Villages, request \in ScoutRequests :
          SendArmyScout(p, v, request)
    \/ \E q \in Orders(find_arrived(Store, now)) : ProcessArrived(q)
    \/ Tick

SpecScout == InitScout /\ [][NextScout]_vars

\* the scouts of army a at village_id have more than 40% of the scout power
\* of both sides, or the village has no scout power
scouting_succeeds(a, village_id) ==
    LET attacker == calculate_scout_power(armies[a].troops)
        defender == calculate_scout_power(garrison(Store, village_id))
    IN  defender = 0 \/ 10 * attacker > 4 * (attacker + defender)

\* C28: a scout report holds the target's resources and the composition of
\* its garrison exactly when the scouting succeeded (attacker scout power over
\* the scout power of both sides above 0.4, or no defender scout power); the
\* report of a failed scouting holds neither.
C28_ReportShowsTargetIffSuccess ==
    [][\A a \in 1..MaxScoutArmies, v \in Villages :
          ( /\ arrives_alone(a, "Scout", v)
            /\ ProcessArrived(<< a >>) )
          => /\ Len(reports') = Len(reports) + 1
             /\ LET r == reports'[Len(reports')]
                IN  /\ r.kind = "scout"
                    /\ r.success <=> scouting_succeeds(a, v)
                    /\ r.scouted_resources # None <=> scouting_succeeds(a, v)
                    /\ r.scouted_troops # None <=> scouting_succeeds(a, v)
                    /\ scouting_succeeds(a, v)
                       => /\ r.scouted_resources = Some(stock(villages[v]))
                          /\ r.scouted_troops = Some(garrison(Store, v))]_vars

\* C28 witness: one scouting of a defended village succeeded and shows its
\* store and garrison, another one failed and shows nothing
C28_OneSeenOneBlind ==
    \E i, j \in DOMAIN reports :
        /\ reports[i].kind = "scout" /\ reports[j].kind = "scout"
        /\ reports[i].success
        /\ reports[i].defender_scouts > 0
        /\ reports[i].scouted_resources = Some(Res(300, 90, 7, 300))
        /\ reports[i].scouted_troops # Some(EmptyMap)
        /\ ~reports[j].success
        /\ reports[j].scouted_resources = None
        /\ reports[j].scouted_troops = None


----------------------------------------------------------------------------
(* Build and upgrade requests served concurrently, one SQL statement per step *)

MaxSlotCalls == 3

\* v1 holds a MainBuilding of level 19 or 20 at rest and can pay for two
\* upgrades; v2 holds no building and can pay for two, or for none
InitSlots ==
    /\ now = 0
    /\ \E level \in {max_level("MainBuilding") - 1, max_level("MainBuilding")} :
          buildings =
             [v1 |-> [sl \in {1} |->
                        [building_type |-> "MainBuilding", level |-> level,
                         is_upgrading |-> FALSE, upgrade_ends_at |-> 0]],
              v2 |-> [sl \in {} |-> 0]]
    /\ \E each \in {400, 60} :
          villages =
             [v1 |-> [user_id |-> "p1", is_capital |-> TRUE,
                      wood |-> 16000, clay |-> 16000, iron |-> 16000, crop |-> 16000,
                      warehouse_capacity |-> 20000, granary_capacity |-> 20000,
                      loyalty |-> 100],
              v2 |-> [user_id |-> "p2", is_capital |-> TRUE,
                      wood |-> each, clay |-> each, iron |-> each, crop |-> each,
                      warehouse_capacity |-> 800, granary_capacity |-> 800,
                      loyalty |-> 100]]
    /\ troops = [v \in Villages |-> EmptyMap]
    /\ armies = [a \in {} |-> 0]
    /\ reports = << >>
    /\ troop_queue = << >>
    /\ next_army = 0
    /\ result = [kind |-> "none"]
    /\ trained = 0
    /\ builds = 0
    /\ tasks = [k \in TaskIds |-> Idle]
    /\ faults = 0

\* build: the reads and the checks, up to the first write; a rejection is the
\* response
BeginBuild(c, user_id, village_id, slot, ty) ==
    /\ tasks[c].pc = "idle"
    /\ builds < MaxSlotCalls
    /\ builds' = builds + 1
    /\ LET d == build(Store, user_id, village_id, slot, ty, now)
       IN  /\ tasks' = [tasks EXCEPT ![c] =
                           IF d.res = "Ok"
                           THEN [pc |-> "run", op |-> "build", plan |-> d.plan,
                                 village |-> village_id, slot |-> slot,
                                 building_type |-> ty]
                           ELSE Idle]
           /\ result' = [kind |-> "build", client |-> c, error |-> d.res]
    /\ UNCHANGED << now, villages, troops, armies, buildings, reports, troop_queue,
                    next_army,
                    trained, faults >>

\* upgrade: the reads and the checks, up to the first write; a rejection is
\* the response
BeginUpgrade(c, user_id, village_id, slot) ==
    /\ tasks[c].pc = "idle"
    /\ builds < MaxSlotCalls
    /\ builds' = builds + 1
    /\ LET d == upgrade(Store, user_id, village_id, slot, now)
       IN  /\ tasks' = [tasks EXCEPT ![c] =
                           IF d.res = "Ok"
                           THEN [pc |-> "run", op |-> "upgrade", plan |-> d.plan,
                                 village |-> village_id, slot |-> slot]
                           ELSE Idle]
           /\ result' = [kind |-> "upgrade", client |-> c, error |-> d.res]
    /\ UNCHANGED << now, villages, troops, armies, buildings, reports, troop_queue,
                    next_army,
                    trained, faults >>

NextSlots ==
    \/ \E c \in Clients, p \in Players, v \in Villages, sl \in Slots, ty \in BuildTypes :
          BeginBuild(c, p, v, sl, ty)
    \/ \E c \in Clients, p \in Players, v \in Villages, sl \in Slots :
          BeginUpgrade(c, p, v, sl)
    \/ \E c \in Clients : ClientStep(c)
    \/ CompleteUpgrades
    \/ Tick

SpecSlots == InitSlots /\ [][NextSlots]_vars

\* client c runs the next statement of its request of kind op
request_step(c, op) ==
    /\ tasks[c].pc = "run"
    /\ tasks[c].op = op
    /\ ClientStep(c)

\* the statement client c is about to run fails
step_fails(c) == ~Exec(Store, Head(tasks[c].plan), now).ok

\* C29: build is all-or-nothing.  A rejected build (Conflict for an occupied
\* slot, BadRequest for too few resources) changes nothing; an accepted one
\* deducts exactly the level-1 cost and leaves in the slot a level-0 building
\* with is_upgrading set and upgrade_ends_at = now + cost.time; a build that
\* fails has deducted nothing, also when two builds of one slot run
\* concurrently.
C29_BuildAllOrNothing ==
    [][\A c \in Clients :
          /\ \A p \in Players, v \in Villages, sl \in Slots, ty \in BuildTypes :
                ( BeginBuild(c, p, v, sl, ty) /\ result'.error # "Ok" )
                => result'.error =
                      (IF villages[v].user_id # p THEN "Forbidden"
                       ELSE IF sl \in DOMAIN buildings[v] THEN "Conflict"
                       ELSE "BadRequest")
          /\ request_step(c, "build")
             => LET t == tasks[c]
                    cost == cost_at_level(t.building_type, 1)
                IN  /\ step_fails(c) => Len(t.plan) = 3
                    /\ (~step_fails(c) /\ Len(t.plan) = 3)
                       => stock(villages'[t.village])
                            = Res(villages[t.village].wood - cost.wood,
                                  villages[t.village].clay - cost.clay,
                                  villages[t.village].iron - cost.iron,
                                  villages[t.village].crop - cost.crop)
                    /\ (~step_fails(c) /\ Len(t.plan) = 1)
                       => /\ buildings'[t.village][t.slot].level = 0
                          /\ buildings'[t.village][t.slot].is_upgrading
                          /\ buildings'[t.village][t.slot].building_type
                               = t.building_type]_vars

\* the levels of all buildings are within max_level
levels_within_max ==
    \A v \in Villages : \A sl \in DOMAIN buildings[v] :
        buildings[v][sl].level <= max_level(buildings[v][sl].building_type)

\* C30: no building level exceeds max_level = 20.  An upgrade of a building
\* that is upgrading is rejected with Conflict, one beyond max_level with
\* BadRequest, and every charge of an upgrade request starts an upgrade of a
\* building that was not upgrading, also when two upgrades of one slot run
\* concurrently.
C30_LevelsAndCharges ==
    /\ [] levels_within_max
    /\ [][\A c \in Clients :
             /\ \A p \in Players, v \in Villages, sl \in Slots :
                   ( /\ BeginUpgrade(c, p, v, sl)
                     /\ villages[v].user_id = p
                     /\ sl \in DOMAIN buildings[v] )
                   => /\ buildings[v][sl].is_upgrading => result'.error = "Conflict"
                      /\ ( /\ ~buildings[v][sl].is_upgrading
                           /\ buildings[v][sl].level + 1 > 20 )
                         => result'.error = "BadRequest"
             /\ ( /\ request_step(c, "upgrade")
                  /\ Head(tasks[c].plan).op = "start_upgrade" )
                => ~buildings[tasks[c].village][tasks[c].slot].is_upgrading]_vars


----------------------------------------------------------------------------
(* Storage: builds, upgrades, demolitions and completions over two slots *)

StorageSlots == {1, 2}

StorageTypes == {"Warehouse", "Granary", "MainBuilding"}

\* v1 holds no building, a Warehouse of level 1 (completed, capacity 1280)
\* or a MainBuilding of level 1
InitStorage ==
    /\ now = 0
    /\ \E ty \in {"None", "Warehouse", "MainBuilding"} :
          /\ villages =
                [v1 |-> [user_id |-> "p1", is_capital |-> TRUE,
                         wood |-> 700, clay |-> 700, iron |-> 700, crop |-> 700,
                         warehouse_capacity |->
                             IF ty = "Warehouse"
                             THEN 800 + storage_capacity("Warehouse", 1) ELSE 800,
                         granary_capacity |-> 800, loyalty |-> 100],
                 v2 |-> [user_id |-> "p2", is_capital |-> TRUE,
                         wood |-> 400, clay |-> 400, iron |-> 400, crop |-> 400,
                         warehouse_capacity |-> 800, granary_capacity |-> 800,
                         loyalty |-> 100]]
          /\ buildings =
                [v1 |-> IF ty = "None" THEN [sl \in {} |-> 0]
                        ELSE [sl \in {1} |->
                                [building_type |-> ty, level |-> 1,
                                 is_upgrading |-> FALSE, upgrade_ends_at |-> 0]],
                 v2 |-> [sl \in {} |-> 0]]
    /\ troops = [v \in Villages |-> EmptyMap]
    /\ armies = [a \in {} |-> 0]
    /\ reports = << >>
    /\ troop_queue = << >>
    /\ next_army = 0
    /\ result = [kind |-> "none"]
    /\ trained = 0
    /\ builds = 0
    /\ tasks = [k \in TaskIds |-> Idle]
    /\ faults = 0

NextStorage ==
    \/ \E p \in Players, v \in Villages, sl \in StorageSlots, ty \in StorageTypes :
          Build(p, v, sl, ty)
    \/ \E p \in Players, v \in Villages, sl \in StorageSlots : Upgrade(p, v, sl)
    \/ \E p \in Players, v \in Villages, sl \in StorageSlots : Demolish(p, v, sl)
    \/ \E v \in Villages, sl \in StorageSlots : CompleteCall(v, sl)
    \/ CompleteUpgrades
    \/ Tick

SpecStorage == InitStorage /\ [][NextStorage]_vars

\* 800 plus the storage capacity of the buildings of type ty that the village
\* holds after the step
capacity_after(village_id, ty) ==
    LET rows == buildings'[village_id]
        of_type == {sl \in DOMAIN rows : rows[sl].building_type = ty}
    IN  800 + SumOver([sl \in of_type |-> storage_capacity(ty, rows[sl].level)], of_type)

\* the step completes the due upgrade of the building in slot of village_id
completes(village_id, slot) ==
    /\ slot \in DOMAIN buildings[village_id]
    /\ due(village_id, slot)
    /\ CompleteCall(village_id, slot)

\* C31: when the upgrade of a Warehouse or a Granary completes, the village's
\* warehouse_capacity and granary_capacity become 800 plus the sum of
\* storage_capacity(level) over its Warehouses and over its Granaries; the
\* completion of any other building leaves both capacities as they were.
C31_StorageRecomputed ==
    [][\A v \in Villages, sl \in StorageSlots :
          completes(v, sl)
          => IF buildings[v][sl].building_type \in {"Warehouse", "Granary"}
             THEN /\ villages'[v].warehouse_capacity = capacity_after(v, "Warehouse")
                  /\ villages'[v].granary_capacity = capacity_after(v, "Granary")
             ELSE /\ villages'[v].warehouse_capacity = villages[v].warehouse_capacity
                  /\ villages'[v].granary_capacity = villages[v].granary_capacity]_vars

\* C31 witness: the village holds a completed Warehouse and a completed
\* Granary and both capacities show them
C31_BothStoresGrown ==
    /\ result.kind = "complete"
    /\ \E w, g \in DOMAIN buildings["v1"] :
          /\ buildings["v1"][w].building_type = "Warehouse"
          /\ buildings["v1"][g].building_type = "Granary"
          /\ buildings["v1"][w].level >= 1
          /\ buildings["v1"][g].level >= 1
          /\ ~buildings["v1"][w].is_upgrading /\ ~buildings["v1"][g].is_upgrading
    /\ villages["v1"].warehouse_capacity > 800
    /\ villages["v1"].granary_capacity > 800


\* C40: the completion of an upgrade never lowers the warehouse_capacity or
\* the granary_capacity of the village, across builds, upgrades, demolitions
\* and completions, also while another Warehouse or Granary of the village is
\* under construction at level 0.
C40_CompletionKeepsCapacity ==
    [][\A v \in Villages, sl \in StorageSlots :
          completes(v, sl)
          => /\ villages'[v].warehouse_capacity >= villages[v].warehouse_capacity
             /\ villages'[v].granary_capacity >= villages[v].granary_capacity]_vars


----------------------------------------------------------------------------
(* Production accrued since the last refresh, and the operations that read  *)
(* the counters                                                              *)

DriftRequests == { Request(<<6, 0>>, "Raid", [Infantry |-> 2], NoResources) }

\* both villages hold a Woodcutter of level 3 and 125 wood and were refreshed
\* at 0; v1 is 5 wood short of a Warehouse and holds 4 Infantry, v2 stores
\* nothing but wood
InitDrift ==
    /\ now = 0
    /\ villages =
         [v \in Villages |->
             [user_id |-> IF v = "v1" THEN "p1" ELSE "p2", is_capital |-> TRUE,
              wood |-> 125,
              clay |-> IF v = "v1" THEN 400 ELSE 0,
              iron |-> IF v = "v1" THEN 400 ELSE 0,
              crop |-> IF v = "v1" THEN 400 ELSE 0,
              warehouse_capacity |-> 800, granary_capacity |-> 800,
              loyalty |-> 100, resources_updated_at |-> 0]]
    /\ buildings =
         [v \in Villages |->
             [sl \in {1} |-> [building_type |-> "Woodcutter", level |-> 3,
                              is_upgrading |-> FALSE, upgrade_ends_at |-> 0]]]
    /\ troops = [v1 |-> [Infantry |-> AtHome(4)], v2 |-> EmptyMap]
    /\ armies = [a \in {} |-> 0]
    /\ reports = << >>
    /\ troop_queue = << >>
    /\ next_army = 0
    /\ result = [kind |-> "none"]
    /\ trained = 0
    /\ builds = 0
    /\ tasks = [k \in TaskIds |-> Idle]
    /\ faults = 0

NextDrift ==
    \/ Pass(3600)
    \/ \E p \in Players, v \in Villages, sl \in StorageSlots, ty \in BuildTypes :
          Build(p, v, sl, ty)
    \/ \E p \in Players, v \in Villages, sl \in StorageSlots : Upgrade(p, v, sl)
    \/ \E p \in Players, v \in Villages, request \in DriftRequests :
          SendArmy(p, v, request)
    \/ \E q \in Orders(find_arrived(Store, now)) : ProcessArrived(q)

SpecDrift == InitDrift /\ [][NextDrift]_vars

\* the row of village_id with the production accrued up to now
refreshed(village_id) ==
    update_village_resources(Store, village_id, now).db.villages[village_id]

\* C32: the cost checks of build and upgrade and the loot computation of a
\* Raid or an Attack work on the village's resources as refreshed within the
\* operation: a build or an upgrade is accepted exactly when the resources
\* with the production accrued up to now cover the cost, and the loot is
\* computed from the target's resources with that production.
C32_DecisionsOnRefreshedResources ==
    [][/\ \A p \in Players, v \in Villages, sl \in StorageSlots, ty \in BuildTypes :
            ( /\ Build(p, v, sl, ty)
              /\ villages[v].user_id = p
              /\ sl \notin DOMAIN buildings[v] )
            => ( builds' = builds + 1
                 <=> ~cannot_afford(refreshed(v), cost_at_level(ty, 1)) )
       /\ \A p \in Players, v \in Villages, sl \in StorageSlots :
            ( /\ Upgrade(p, v, sl)
              /\ villages[v].user_id = p
              /\ sl \in DOMAIN buildings[v]
              /\ ~buildings[v][sl].is_upgrading )
            => ( builds' = builds + 1
                 <=> ~cannot_afford(refreshed(v),
                                    cost_at_level(buildings[v][sl].building_type,
                                                  buildings[v][sl].level + 1)) )
       /\ \A a \in 1..MaxArmies, v \in Villages :
            ( /\ arrives_alone(a, "Raid", v)
              /\ ProcessArrived(<< a >>)
              /\ Len(reports') = Len(reports) + 1
              /\ reports'[Len(reports')].winner = "attacker" )
            => LET r == reports'[Len(reports')]
               IN  r.resources_stolen
                     = calculate_stolen_resources(
                           refreshed(v),
                           calculate_survivors(r.attacker_troops, r.attacker_losses),
                           "Raid")]_vars

-----------------------------------------------------------------------------
(* Training orders.  handlers::troop::train_troops checks the owner and     *)
(* calls TroopService::train_troops, which reads the end of the village's   *)
(* last order, deducts the cost and appends the new order: three statements *)
(* on the pool, each committed on its own.                                  *)

MaxOrders == 3

\* the clock steps of the training runs
TrainPass == 1200

\* troop_definitions rows: training_time_seconds and the four costs
train_definitions ==
    [ Infantry |-> [training_time_seconds |-> 600,
                    cost |-> [wood |-> 100, clay |-> 80, iron |-> 60, crop |-> 40]],
      Spearman |-> [training_time_seconds |-> 900,
                    cost |-> [wood |-> 80, clay |-> 100, iron |-> 40, crop |-> 40]] ]

\* count units' cost
train_cost(troop_type, count) ==
    LET c == train_definitions[troop_type].cost
    IN  [wood |-> count * c.wood, clay |-> count * c.clay,
         iron |-> count * c.iron, crop |-> count * c.crop]

\* the start of a new order: max(now, end of the village's last order); a read
\* that yields no end time leaves now
train_started_at(db, village_id, t) ==
    LET last == get_last_queue_end_time(db, village_id)
    IN  IF last.ok /\ last.value # None THEN Max(t, last.value[1]) ELSE t

\* TroopService::train_troops: the reads, then the two writes
train_troops(db, village_id, troop_type, count, t) ==
    LET per_unit == train_definitions[troop_type].training_time_seconds
        started_at == train_started_at(db, village_id, t)
    IN  IF cannot_afford(db.villages[village_id], train_cost(troop_type, count))
        THEN Reject("BadRequest")
        ELSE Accept(<< [op |-> "deduct_resources", village |-> village_id,
                        res |-> train_cost(troop_type, count)],
                       [op |-> "add_to_queue", village |-> village_id,
                        troop_type |-> troop_type, count |-> count,
                        each_duration_seconds |-> per_unit,
                        started_at |-> started_at,
                        ends_at |-> started_at + count * per_unit] >>)

\* handlers::troop::train_troops: the owner check, then the service's reads
BeginTrain(c, user_id, village_id, troop_type, count) ==
    /\ tasks[c].pc = "idle"
    /\ Len(troop_queue) + Cardinality({k \in Clients : tasks[k].pc = "run"}) < MaxOrders
    /\ LET r == IF villages[village_id].user_id # user_id THEN Reject("Forbidden")
                ELSE train_troops(Store, village_id, troop_type, count, now)
       IN  /\ result' = [kind |-> "train", client |-> c, error |-> r.res]
           /\ tasks' = [tasks EXCEPT ![c] =
                           IF r.res = "Ok"
                           THEN [pc |-> "run", op |-> "train", plan |-> r.plan,
                                 village |-> village_id]
                           ELSE Idle]
    /\ UNCHANGED << now, villages, troops, armies, buildings, reports, troop_queue,
                    next_army, trained, builds, faults >>

InitTrain ==
    /\ now = 0
    /\ villages = [v1 |-> [user_id |-> "p1", is_capital |-> TRUE,
                           wood |-> 500, clay |-> 500, iron |-> 500, crop |-> 500,
                           warehouse_capacity |-> 800, granary_capacity |-> 800,
                           loyalty |-> 100],
                   v2 |-> [user_id |-> "p2", is_capital |-> TRUE,
                           wood |-> 150, clay |-> 150, iron |-> 150, crop |-> 150,
                           warehouse_capacity |-> 800, granary_capacity |-> 800,
                           loyalty |-> 100]]
    /\ buildings = [v \in Villages |-> [sl \in {} |-> 0]]
    /\ troops = [v \in Villages |-> EmptyMap]
    /\ armies = [a \in {} |-> 0]
    /\ reports = << >>
    /\ troop_queue = << >>
    /\ next_army = 0
    /\ result = [kind |-> "none"]
    /\ trained = 0
    /\ builds = 0
    /\ tasks = [k \in TaskIds |-> Idle]
    /\ faults = 0

NextTrain ==
    \/ \E c \in Clients, p \in Players, v \in Villages,
          ty \in TrainTypes, n \in {1, 3} : BeginTrain(c, p, v, ty, n)
    \/ \E c \in Clients : ClientStep(c)
    \/ Pass(TrainPass)

SpecTrain == InitTrain /\ [][NextTrain]_vars

-----------------------------------------------------------------------------
(* The two sweeps with their return values.  bad holds the entities whose   *)
(* handler the store fails at its first call (connection lost, timeout):    *)
(* the handler returns Err before it has written anything.                  *)

\* the missions process_arrived_armies has a handler for
HandledMissions == {"Raid", "Attack", "Scout", "Support", "Conquer"}

\* the loop of process_arrived_armies ended by the first error
RECURSIVE sweep_armies_abort(_, _, _, _)
sweep_armies_abort(db, queue, bad, t) ==
    IF queue = << >> THEN [db |-> db, processed |-> 0]
    ELSE LET e == Head(queue)
             d == handle_arrived(db, e.id, e.army)
             r == IF e.id \in bad THEN StmtErr(db) ELSE Run(db, d.plan, t)
             ok == e.id \notin bad /\ d.res = "Ok" /\ r.ok
             rest == sweep_armies_abort(r.db, Tail(queue), bad, t)
         IN  IF ~ok THEN [db |-> r.db, processed |-> 0]
             ELSE [db |-> rest.db, processed |-> rest.processed + 1]

\* ArmyService::process_arrived_armies: every row of the snapshot in turn; Ok
\* counts in `processed`, Err is logged, a mission without handler is passed
\* over (`continue`)
RECURSIVE sweep_armies(_, _, _, _)
sweep_armies(db, queue, bad, t) ==
    IF queue = << >> THEN [db |-> db, processed |-> 0]
    ELSE LET e == Head(queue)
             handled == e.army.is_returning \/ e.army.mission \in HandledMissions
             d == handle_arrived(db, e.id, e.army)
             r == IF e.id \in bad THEN StmtErr(db) ELSE Run(db, d.plan, t)
             ok == handled /\ e.id \notin bad /\ d.res = "Ok" /\ r.ok
             rest == sweep_armies(r.db, Tail(queue), bad, t)
         IN  [db |-> rest.db, processed |-> rest.processed + (IF ok THEN 1 ELSE 0)]

\* background_jobs::complete_building_upgrades: every due building in turn; Ok
\* counts in `completed`, Err is logged
RECURSIVE sweep_buildings(_, _, _, _)
sweep_buildings(db, rows, bad, t) ==
    IF rows = {} THEN [db |-> db, completed |-> 0]
    ELSE LET b == CHOOSE x \in rows : TRUE
             r == IF b \in bad THEN StmtErr(db)
                  ELSE Run(db, service_complete_upgrade(db, b[1], b[2]), t)
             rest == sweep_buildings(r.db, rows \ {b}, bad, t)
         IN  [db |-> rest.db, completed |-> rest.completed + (IF r.ok THEN 1 ELSE 0)]

\* one run of the movement sweep; result keeps what it returned
SweepArmies(q, bad) ==
    /\ q # << >>
    /\ bad \subseteq {q[i] : i \in DOMAIN q}
    /\ faults + Cardinality(bad) <= MaxFaults
    /\ LET r == sweep_armies(Store, snapshot(Store, q), bad, now)
       IN  /\ Install(r.db)
           /\ result' = [kind |-> "process_arrived_armies", processed |-> r.processed,
                         due |-> Len(q), failed |-> Cardinality(bad)]
    /\ faults' = faults + Cardinality(bad)
    /\ UNCHANGED << now, trained, builds, tasks >>

\* one run of the building completion job; result keeps what it returned
SweepBuildings(bad) ==
    /\ find_completed_upgrades(Store, now) # {}
    /\ bad \subseteq find_completed_upgrades(Store, now)
    /\ faults + Cardinality(bad) <= MaxFaults
    /\ LET found == find_completed_upgrades(Store, now)
           r == sweep_buildings(Store, found, bad, now)
       IN  /\ Install(r.db)
           /\ result' = [kind |-> "complete_building_upgrades",
                         processed |-> r.completed,
                         due |-> Cardinality(found), failed |-> Cardinality(bad)]
    /\ faults' = faults + Cardinality(bad)
    /\ UNCHANGED << now, trained, builds, tasks >>

\* the send_army requests of the sweep runs
SweepRequests ==
    { Request(<<6, 0>>, "Raid", [Infantry |-> 2], NoResources),
      Request(<<6, 0>>, "Support", [Infantry |-> 1], Res(60, 0, 0, 0)) }

\* the villages of Init, v1 with a Warehouse and a Granary and the stock to
\* upgrade both
InitSweep ==
    /\ now = 0
    /\ villages =
         [v1 |-> [user_id |-> "p1", is_capital |-> TRUE,
                  wood |-> 1000, clay |-> 1000, iron |-> 1000, crop |-> 400,
                  warehouse_capacity |-> 1280, granary_capacity |-> 1280,
                  loyalty |-> 100],
          v2 |-> [user_id |-> "p2", is_capital |-> FALSE,
                  wood |-> 300, clay |-> 90, iron |-> 300, crop |-> 300,
                  warehouse_capacity |-> 800, granary_capacity |-> 800,
                  loyalty |-> 25]]
    /\ troops =
         [v1 |-> [Infantry |-> [count |-> 3, in_village |-> 3],
                  RoyalAdvisor |-> [count |-> 1, in_village |-> 1]],
          v2 |-> [Spearman |-> [count |-> 2, in_village |-> 2]]]
    /\ armies = [a \in {} |-> 0]
    /\ buildings =
         [v1 |-> [sl \in StorageSlots |->
                    [building_type |-> IF sl = 1 THEN "Warehouse" ELSE "Granary",
                     level |-> 1, is_upgrading |-> FALSE, upgrade_ends_at |-> 0]],
          v2 |-> [sl \in {} |-> 0]]
    /\ reports = << >>
    /\ troop_queue = << >>
    /\ next_army = 0
    /\ result = [kind |-> "none"]
    /\ trained = 0
    /\ builds = 0
    /\ tasks = [k \in TaskIds |-> Idle]
    /\ faults = 0

NextSweep ==
    \/ \E p \in Players, v \in Villages, request \in SweepRequests :
          SendArmy(p, v, request)
    \/ \E q \in Orders(find_arrived(Store, now)), bad \in SUBSET DOMAIN armies :
          SweepArmies(q, bad)
    \/ \E p \in Players, v \in Villages, sl \in StorageSlots : Upgrade(p, v, sl)
    \/ \E bad \in SUBSET (Villages \X StorageSlots) : SweepBuildings(bad)
    \/ Tick

SpecSweep == InitSweep /\ [][NextSweep]_vars

\* the rows of the snapshot q with a handler
with_handler(q) ==
    {a \in {q[i] : i \in DOMAIN q} :
        armies[a].is_returning \/ armies[a].mission \in HandledMissions}

\* C34: in one movement sweep and in one building completion sweep an entity
\* whose processing fails is skipped and left as it was, every other due entity
\* of the same sweep is processed (an army is no longer due, a building no
\* longer upgrading), and the sweep returns the number of entities processed.
C34_SweepSkipsFailures ==
    [][/\ \A q \in Orders(find_arrived(Store, now)), bad \in SUBSET DOMAIN armies :
            SweepArmies(q, bad)
            => /\ \A a \in bad : a \in DOMAIN armies' /\ armies'[a] = armies[a]
               /\ \A a \in with_handler(q) \ bad : a \notin find_arrived(Store', now)
               /\ result'.processed = Cardinality(with_handler(q) \ bad)
       /\ \A bad \in SUBSET (Villages \X StorageSlots) :
            SweepBuildings(bad)
            => LET found == find_completed_upgrades(Store, now)
               IN  /\ \A b \in bad : buildings'[b[1]][b[2]] = buildings[b[1]][b[2]]
                   /\ \A b \in found \ bad :
                         /\ ~buildings'[b[1]][b[2]].is_upgrading
                         /\ buildings'[b[1]][b[2]].level = buildings[b[1]][b[2]].level + 1
                   /\ result'.processed = Cardinality(found \ bad)]_vars

\* a sweep over two due entities has skipped one and processed the other
C34_OneSkippedOneProcessed ==
    /\ result.kind \in {"process_arrived_armies", "complete_building_upgrades"}
    /\ result.due = 2
    /\ result.failed = 1
    /\ result.processed = 1

-----------------------------------------------------------------------------
(* The life of an army row, statement by statement (SpecSteps) *)

\* where the army a is in the table rows: outbound (neither flag), stationed,
\* returning, or deleted
army_state(rows, a) ==
    IF a \notin DOMAIN rows THEN "deleted"
    ELSE IF rows[a].is_returning THEN "returning"
    ELSE IF rows[a].is_stationed THEN "stationed"
    ELSE "outbound"

\* the moves of an army from one statement to the next that go forward
forward_moves ==
    { << "outbound", "stationed" >>, << "outbound", "returning" >>,
      << "outbound", "deleted" >>, << "stationed", "returning" >>,
      << "stationed", "deleted" >>, << "returning", "deleted" >> }

\* C35: an army's state only moves forward (outbound to stationed, returning or
\* deleted; stationed to returning or deleted; returning to deleted only; a
\* deleted id stays deleted), and when the sweep turns to a row of its snapshot
\* the army is not stationed and, if it is returning, the sweep runs the
\* handler for returning armies and no mission handler.
C35_ArmyStateMovesForward ==
    [][/\ \A a \in 1..next_army :
            \/ army_state(armies', a) = army_state(armies, a)
            \/ << army_state(armies, a), army_state(armies', a) >> \in forward_moves
       /\ \A a \in DOMAIN armies :
            armies[a].is_returning
            => ~(a \in DOMAIN armies' /\ armies'[a].is_stationed)
       /\ SweepNext
          => LET e == Head(tasks["sweep"].queue)
             IN  /\ army_state(armies, e.id) # "stationed"
                 /\ ~e.army.is_stationed
                 /\ army_state(armies, e.id) = "returning"
                    => /\ e.army.is_returning
                       /\ tasks'["sweep"].plan
                            = handle_returning_army(Store, e.id, e.army).plan]_vars

\* C35 witness: a support army that was stationed and then recalled is back at
\* its arrival time and the sweep has turned to it with the returning handler.
C35_RecalledArmySweptHome ==
    /\ tasks["sweep"].pc = "sweep"
    /\ ~tasks["sweep"].wrote
    /\ \E a \in DOMAIN armies :
          /\ tasks["sweep"].cur = a
          /\ armies[a].mission = "Support"
          /\ armies[a].is_returning
          /\ tasks["sweep"].plan = handle_returning_army(Store, a, armies[a]).plan
          /\ tasks["sweep"].plan # << >>

-----------------------------------------------------------------------------
(* A refresh next to a build, statement by statement.  The refresh reads    *)
(* the village row, computes the four counters and writes them with         *)
(* update_resources; the build deducts its cost with deduct_resources.      *)

\* ResourceService::update_village_resources up to its write: the row is read
\* and the counters to write are computed from it
refresh_statement(db, village_id, t) ==
    LET v == update_village_resources(db, village_id, t).db.villages[village_id]
    IN  [op |-> "update_resources", village |-> village_id,
         res |-> Res(v.wood, v.clay, v.iron, v.crop)]

\* handlers::village::get_village: the owner check, then the refresh's read
BeginRefresh(c, user_id, village_id) ==
    /\ tasks[c].pc = "idle"
    /\ villages[village_id].user_id = user_id
    /\ tasks' = [tasks EXCEPT ![c] =
                    [pc |-> "run", op |-> "refresh", village |-> village_id,
                     plan |-> << refresh_statement(Store, village_id, now) >>]]
    /\ UNCHANGED << now, villages, troops, armies, buildings, reports, troop_queue,
                    next_army, result, trained, builds, faults >>

\* an hour passes between requests: a request's statements take no time
QuietHour ==
    /\ \A c \in Clients : tasks[c].pc = "idle"
    /\ Pass(3600)

NextRace ==
    \/ QuietHour
    \/ \E c \in Clients, p \in Players, v \in Villages : BeginRefresh(c, p, v)
    \/ \E c \in Clients, p \in Players, v \in Villages, sl \in StorageSlots, ty \in BuildTypes :
          BeginBuild(c, p, v, sl, ty)
    \/ \E c \in Clients : ClientStep(c)

SpecRace == InitDrift /\ [][NextRace]_vars

\* the wood the buildings built in village id have cost
wood_spent(id) ==
    LET RECURSIVE sum(_)
        sum(S) == IF S = {} THEN 0
                  ELSE LET sl == CHOOSE x \in S : TRUE
                       IN  cost_at_level(buildings[id][sl].building_type, 1).wood
                             + sum(S \ {sl})
    IN  sum(DOMAIN buildings[id] \ {1})

\* C36: a refresh that runs concurrently with a deduct on the same village
\* never loses the deduct: once both have finished, the wood of the village is
\* the 125 it started with, plus the 8 per hour of its Woodcutter up to the
\* last refresh, minus the cost of what was built.
C36_RefreshKeepsDeduct ==
    (\A c \in Clients : tasks[c].pc = "idle")
    => \A v \in Villages :
          villages[v].wood
            = 125 + 8 * (villages[v].resources_updated_at \div 3600) - wood_spent(v)

-----------------------------------------------------------------------------
(* Armies on their way to a village that changes hands *)

\* the send_army requests of p1 against v2: a conquest and the hostile
\* missions that follow it
OwnRequests ==
    { Request(<<6, 0>>, "Conquer", [Infantry |-> 3, RoyalAdvisor |-> 1], NoResources),
      Request(<<6, 0>>, "Raid", [Infantry |-> 2], NoResources),
      Request(<<6, 0>>, "Attack", [Infantry |-> 2], NoResources),
      Request(<<6, 0>>, "Scout", [HighlandPony |-> 3], NoResources) }

\* v2 is not a capital and at loyalty 25: one chief of a winning army takes it
InitOwn ==
    /\ now = 0
    /\ villages = [v1 |-> WarVillage("p1", TRUE, 100),
                   v2 |-> [WarVillage("p2", FALSE, 300) EXCEPT !.loyalty = 25]]
    /\ troops = [v1 |-> [Infantry |-> AtHome(5), RoyalAdvisor |-> AtHome(1),
                         HighlandPony |-> AtHome(3)],
                 v2 |-> [Spearman |-> AtHome(2)]]
    /\ armies = [a \in {} |-> 0]
    /\ buildings = [v \in Villages |-> [sl \in {} |-> 0]]
    /\ reports = << >>
    /\ troop_queue = << >>
    /\ next_army = 0
    /\ result = [kind |-> "none"]
    /\ trained = 0
    /\ builds = 0
    /\ tasks = [k \in TaskIds |-> Idle]
    /\ faults = 0

NextOwn ==
    \/ \E p \in Players, v \in Villages, request \in OwnRequests :
          SendArmySiege(p, v, request)
    \/ \E q \in Orders(find_arrived(Store, now)) : ProcessArrived(q)
    \/ Tick

SpecOwn == InitOwn /\ [][NextOwn]_vars

\* C37: at its arrival a Raid, Attack or Scout army never fights, kills troops
\* of, or loots a village whose current owner is the army's owner: no battle or
\* scout report names the same player as attacker and as defender.
C37_NoBattleAgainstOwnVillage ==
    \A i \in DOMAIN reports :
        reports[i].attacker_player_id # reports[i].defender_player_id

-----------------------------------------------------------------------------
(* The survivors of a winning army (SpecWar) *)

\* the battle reports written by the step
new_battles == {i \in (Len(reports) + 1)..Len(reports') : reports'[i].kind = "battle"}

\* C38: whenever the attacker wins a battle, every troop type of the attacking
\* army with a positive count keeps at least one survivor: the army is not
\* deleted but becomes a returning army holding the survivors, and the chiefs
\* of a winning Conquer army are among them.
C38_WinnerKeepsEveryType ==
    [][\A i \in new_battles :
          LET r == reports'[i]
              survivors == calculate_survivors(r.attacker_troops, r.attacker_losses)
          IN  r.winner = "attacker"
              => /\ \A ty \in DOMAIN r.attacker_troops :
                       r.attacker_troops[ty] > 0
                       => /\ ty \in DOMAIN survivors
                          /\ survivors[ty] >= 1
                 /\ r.army \in DOMAIN armies'
                 /\ armies'[r.army].is_returning
                 /\ armies'[r.army].troops = survivors
                 /\ MapSum(armies'[r.army].troops) > 0]_vars

\* C38 witness: a Conquer army has won with losses, and returns with its chief
\* and at least one unit of every other type it set out with.
C38_WinnerWithLosses ==
    \E i \in DOMAIN reports :
        /\ reports[i].kind = "battle"
        /\ reports[i].mission = "Conquer"
        /\ reports[i].winner = "attacker"
        /\ reports[i].attacker_losses # EmptyMap
        /\ reports[i].army \in DOMAIN armies
        /\ armies[reports[i].army].is_returning
        /\ "RoyalAdvisor" \in DOMAIN armies[reports[i].army].troops
        /\ "Infantry" \in DOMAIN armies[reports[i].army].troops

-----------------------------------------------------------------------------
(* The resources of the villages under dispatch, stationing, recall and     *)
(* return (SpecRecall: no production, no building)                          *)

\* the resources the villages of Init hold together
InitialStock == Res(1000 + 300, 400 + 90, 400 + 300, 400 + 300)

\* the resources the villages hold together
VillageStock ==
    Res(villages["v1"].wood + villages["v2"].wood,
        villages["v1"].clay + villages["v2"].clay,
        villages["v1"].iron + villages["v2"].iron,
        villages["v1"].crop + villages["v2"].crop)

\* C39: dispatch, stationing, recall and return never create resources: what a
\* returning army credits to its home village was deducted from a village
\* before (as loot, or at dispatch), so the villages together never hold more
\* of a resource than they did at the start.
C39_ArmiesCreateNoResources ==
    /\ VillageStock.wood <= InitialStock.wood
    /\ VillageStock.clay <= InitialStock.clay
    /\ VillageStock.iron <= InitialStock.iron
    /\ VillageStock.crop <= InitialStock.crop

=============================================================================
